---------------------------- MODULE Spec2Model ----------------------------
(***************************************************************************)
(* Inventory back end of safal_stock: the Category, SubCategory and        *)
(* Product collections and the Express route handlers that create, rename  *)
(* and cascade-delete them.  A handler is a sequence of store calls; every *)
(* await is a point where another request may run, and every store call    *)
(* may throw, which the handler's catch turns into a 500 response.         *)
(***************************************************************************)
EXTENDS Integers, Sequences, FiniteSets, TLC

(***************************************************************************)
(* Bounds of the model.                                                    *)
(***************************************************************************)
\* Documents ever inserted, over the three collections together.
MaxDocs == 4

\* Milliseconds the clock may advance.
MaxClock == 2

\* Products ever inserted where the Product lists are looked at.
MaxProducts == 2

\* Products ever inserted where the writes of one Product are looked at.
MaxWritten == 1

\* Seconds that pass one at a time, and leaps of nearly a token's life.
MaxTicks == 2
MaxLeaps == 1

\* Tokens signed.
MaxTokens == 2

\* Calls of onDelete.
MaxCalls == 2

\* Searches a Dashboard sends.
MaxSearches == 2

\* Fetches a SubCategoryView sends.
MaxFetches == 5

\* The page size of SubCategoryView, which is 20 in the source; it is taken
\* small so that a list of a few Products has several pages.
ViewLimit == 1

\* The requests that may be in flight at once.
Procs == {1, 2}

(***************************************************************************)
(* Program constants.                                                      *)
(***************************************************************************)
CategoryNameMax == 100
SubCategoryNameMax == 100
ProductNameMax == 200
DefaultPage == 1
DefaultLimit == 20
\* expiresIn: '30d', in seconds
ExpiresIn == 2592000

(***************************************************************************)
(* Names are sequences of one-character strings.                           *)
(***************************************************************************)
Space == " "

\* String.prototype.toLowerCase on the characters the model uses; the
\* 'i' flag of a regular expression compares characters this way.
Lower(c) ==
    CASE c = "A" -> "a"
      [] c = "B" -> "b"
      [] OTHER -> c

RECURSIVE TrimLeft(_)
TrimLeft(s) ==
    IF s # <<>> /\ Head(s) = Space THEN TrimLeft(Tail(s)) ELSE s

RECURSIVE TrimRight(_)
TrimRight(s) ==
    IF s # <<>> /\ s[Len(s)] = Space
    THEN TrimRight(SubSeq(s, 1, Len(s) - 1))
    ELSE s

\* body('name').trim(): the sanitizer rewrites req.body.name.
Trim(s) == TrimRight(TrimLeft(s))

\* .notEmpty().isLength({ max }) on the trimmed name.
ValidName(s, max) == Len(s) > 0 /\ Len(s) <= max

(***************************************************************************)
(* new RegExp(`^${name}$`, 'i'): the name is pasted into the pattern       *)
(* unescaped, so "+" is a quantifier and "." a wildcard.  A pattern is     *)
(* compiled into atoms [ch, plus]; a "+" with nothing to repeat makes the  *)
(* constructor throw a SyntaxError.                                        *)
(***************************************************************************)
Quantifier == "+"
Wildcard == "."

RECURSIVE PatternOk(_, _)
\* prev: whether the character before is an atom a quantifier may follow.
PatternOk(s, prev) ==
    IF s = <<>> THEN TRUE
    ELSE IF Head(s) = Quantifier
         THEN prev /\ PatternOk(Tail(s), FALSE)
         ELSE PatternOk(Tail(s), TRUE)

RegExpCompiles(name) == PatternOk(name, FALSE)

RECURSIVE Atoms(_)
Atoms(s) ==
    IF s = <<>> THEN <<>>
    ELSE IF Len(s) >= 2 /\ s[2] = Quantifier
         THEN <<[ch |-> s[1], plus |-> TRUE]>> \o Atoms(SubSeq(s, 3, Len(s)))
         ELSE <<[ch |-> s[1], plus |-> FALSE]>> \o Atoms(Tail(s))

AtomMatches(a, c) == a.ch = Wildcard \/ Lower(a.ch) = Lower(c)

RECURSIVE MatchHere(_, _)
\* The atoms match the whole of str (the pattern is anchored by ^ and $).
MatchHere(atoms, str) ==
    IF atoms = <<>> THEN str = <<>>
    ELSE IF str = <<>> THEN FALSE
    ELSE /\ AtomMatches(Head(atoms), Head(str))
         /\ \/ MatchHere(Tail(atoms), Tail(str))
            \/ Head(atoms).plus /\ MatchHere(atoms, Tail(str))

\* { name: { $regex: new RegExp(`^${name}$`, 'i') } } applied to a stored name.
NameRegexMatches(name, stored) == MatchHere(Atoms(name), stored)

\* Equality of names ignoring letter case.
RECURSIVE LowerSeq(_)
LowerSeq(s) == IF s = <<>> THEN <<>> ELSE <<Lower(Head(s))>> \o LowerSeq(Tail(s))

SameNameIgnoringCase(a, b) == LowerSeq(a) = LowerSeq(b)


(***************************************************************************)
(* Numbers arrive as text: in a query string, or in a JSON body that the   *)
(* validators read as text.                                                *)
(***************************************************************************)
DigitValue ==
    [c \in {"0", "1", "2", "3", "4", "5", "6", "7", "8", "9"} |->
        CASE c = "0" -> 0 [] c = "1" -> 1 [] c = "2" -> 2 [] c = "3" -> 3
          [] c = "4" -> 4 [] c = "5" -> 5 [] c = "6" -> 6 [] c = "7" -> 7
          [] c = "8" -> 8 [] c = "9" -> 9]

AllDigits(s) == s # <<>> /\ \A i \in DOMAIN s : s[i] \in DOMAIN DigitValue

\* isNumeric of express-validator: an optional sign, then digits.
IsNumeric(s) ==
    IF s # <<>> /\ Head(s) \in {"+", "-"} THEN AllDigits(Tail(s)) ELSE AllDigits(s)

RECURSIVE DigitsValue(_)
DigitsValue(s) ==
    IF s = <<>> THEN 0
    ELSE 10 * DigitsValue(SubSeq(s, 1, Len(s) - 1)) + DigitValue[s[Len(s)]]

\* Number(text) for a numeral and for the empty string, which is 0.
Number(s) ==
    IF s = <<>> THEN 0
    ELSE IF Head(s) = "-" THEN 0 - DigitsValue(Tail(s))
    ELSE IF Head(s) = "+" THEN DigitsValue(Tail(s))
    ELSE DigitsValue(s)

(***************************************************************************)
(* State.                                                                  *)
(***************************************************************************)
VARIABLES
    categories,     \* Category collection: _id -> [name]
    subCategories,  \* SubCategory collection: _id -> [name, categoryId]
    products,       \* Product collection: _id -> [subCategoryId, name, qty, price,
                    \* billing, image, sampleLocation, ghodaLocation, createdAt, updatedAt]
    allocated,      \* ObjectIds generated so far, per collection, and how many
                    \* of them the seed script generated
    req,            \* the request each slot is serving, and where it stands
    resp,           \* the request answered last, with its response, until read
    now,            \* Date.now(), in milliseconds since the server started
    seconds,        \* Math.floor(Date.now() / 1000): the clock a token is
                    \* stamped and verified with
    issued,         \* the tokens generateToken has signed
    modal,          \* SubCategoryModal and its PasscodeModal: props, component
                    \* state, and the onDelete calls made
    dashboard,      \* Dashboard: the state of its search, its timer and the
                    \* searches in flight
    view            \* SubCategoryView: its filters, list and pagination, its
                    \* timer and the fetches in flight

\* What the routers of Categories, SubCategories and Products leave alone.
outside == <<seconds, issued, modal, dashboard, view>>

\* The state of the server.
server == <<categories, subCategories, products, allocated, req, resp, now,
            seconds, issued>>

vars == <<categories, subCategories, products, allocated, req, resp, now, outside>>

\* Ids a client can name: the ids generated so far (of live and of deleted
\* documents) and 0, a well-formed ObjectId that no document ever had.
KnownIds(n) == 0 .. n

\* Documents inserted by requests.
Docs ==
    allocated.category + allocated.subCategory + allocated.product
        - allocated.seeded

\* req.body of a Product request: given holds the fields the body carries;
\* numbers are text; a field that is not given is left at its empty value.
NoBody ==
    [given |-> {}, name |-> <<>>, subCategoryId |-> 0, qty |-> <<>>,
     price |-> <<>>, billing |-> <<>>, image |-> <<>>, sampleLocation |-> <<>>,
     ghodaLocation |-> <<>>]

\* req.query of a Product list: given holds the parameters the URL carries.
NoQuery ==
    [given |-> {}, subCategoryId |-> 0, categoryId |-> 0, search |-> <<>>,
     qtyMin |-> <<>>, qtyMax |-> <<>>, page |-> <<>>, limit |-> <<>>]

\* The payload of a token and whether its signature is that of JWT_SECRET;
\* iat and exp are in seconds.  NoToken is what a request without an
\* Authorization header carries.
NoToken == [id |-> 0, iat |-> 0, exp |-> 0, signed |-> FALSE]

\* A request slot: op and pc say which handler runs and which store call is
\* next; tok is the bearer token; id is req.params.id; name and parent are
\* the (sanitized) body fields; kids is the local subCategoryIds; body is a
\* product body and query a product query; status and err are the response
\* and what the catch block logged; out, total and pages are the documents
\* and the pagination of the response.
Idle ==
    [op |-> "none", pc |-> "idle", at |-> "idle", tok |-> "none", id |-> 0,
     name |-> <<>>, parent |-> 0, kids |-> {}, body |-> NoBody,
     query |-> NoQuery, status |-> 0, err |-> "none", out |-> <<>>,
     total |-> 0, pages |-> 0, bearer |-> NoToken]

Running(p) == req[p].pc # "idle"

\* A slot takes a new request once the response sent last has been read;
\* of two free slots the first is taken.
Free(p) ==
    /\ ~Running(p)
    /\ resp = Idle
    /\ \A q \in Procs : q < p => Running(q)

\* Creates that passed their checks and have not inserted yet.
PendingInserts == Cardinality({q \in Procs : req[q].pc = "insert"})

CanAllocate == Docs + PendingInserts < MaxDocs

\* res.status(code).json(...): the handler ends.
Respond(r, code, err) ==
    [r EXCEPT !.pc = "done", !.at = r.pc, !.status = code, !.err = err]

\* The catch block of every handler: console.error, then 500.
ServerError(r, err) == Respond(r, 500, err)

Start(op, pc, tok) ==
    [Idle EXCEPT !.op = op, !.pc = pc, !.at = "begin", !.tok = tok]

\* Slot p goes on with request record r; a request that has responded
\* leaves its slot, and resp shows it with its response.
Settle(p, r) ==
    /\ req' = [req EXCEPT ![p] = IF r.pc = "done" THEN Idle ELSE r]
    /\ resp' = IF r.pc = "done" THEN r ELSE resp

\* The client has read the response sent last.  (resp observes the
\* handlers; it is no state of the server.)
Read ==
    /\ resp # Idle
    /\ resp' = Idle
    /\ UNCHANGED <<categories, subCategories, products, allocated, req, now, outside>>

\* Dashboard after its first render: the search effect has run for the
\* empty searchText and set its timer.  timer holds the searchText the
\* pending callback closed over, inflight the searches awaited, sent counts
\* them, and logged says that a search failed since the last change.
DashboardMounted ==
    [searchText |-> <<>>, searchResults |-> <<>>, isSearching |-> FALSE,
     timer |-> <<<<>>>>, inflight |-> {}, sent |-> 0, logged |-> FALSE]

\* The filters of SubCategoryView: searchText, and qtyMin and qtyMax, for
\* which <<>> is null.
NoFilter == [searchText |-> <<>>, qtyMin |-> <<>>, qtyMax |-> <<>>]

\* SubCategoryView of SubCategory 1 after its first render: the effect has
\* set its timer for a fetch without filters.  timer holds the filters the
\* pending fetchProducts closed over, inflight the fetches awaited, sent
\* counts them, failed says that a fetch failed since the last change, and
\* shown holds the filters of the fetch that the list displayed began with.
ViewMounted ==
    [subCategoryId |-> 1, filter |-> NoFilter, products |-> <<>>,
     shown |-> NoFilter,
     pagination |-> [page |-> 1, pages |-> 1, total |-> 0],
     isLoading |-> TRUE, isLoadingMore |-> FALSE,
     timer |-> <<NoFilter>>, inflight |-> {}, sent |-> 0, failed |-> FALSE]

\* SubCategoryModal before it is opened: isOpen and subCategory are its
\* props (0 is no subCategory), showPasscodeModal its state; passcode, error
\* and isLoading are the state of PasscodeModal; awaiting says that
\* handleSubmit awaits onConfirm, calls counts the calls of onDelete, and
\* event is the event handled last.
ModalClosed ==
    [isOpen |-> FALSE, subCategory |-> 0, showPasscodeModal |-> FALSE,
     passcode |-> <<>>, error |-> "", isLoading |-> FALSE, awaiting |-> FALSE,
     calls |-> 0, event |-> "none"]

\* A millisecond passes.
Tick ==
    /\ now < MaxClock
    /\ now' = now + 1
    /\ UNCHANGED <<categories, subCategories, products, allocated, req, resp, outside>>

Init ==
    /\ categories = <<>>
    /\ subCategories = <<>>
    /\ products = <<>>
    /\ allocated = [category |-> 0, subCategory |-> 0, product |-> 0, seeded |-> 0]
    /\ req = [p \in Procs |-> Idle]
    /\ resp = Idle
    /\ now = 0
    /\ seconds = 0
    /\ issued = {}
    /\ modal = ModalClosed
    /\ dashboard = DashboardMounted
    /\ view = ViewMounted

\* The store after the seed script's Category.insertMany and
\* SubCategory.insertMany and the removal of one SubCategory: two Categories
\* with SubCategories, one without, no Product.
InitSeeded ==
    /\ categories = (1 :> [name |-> <<"a">>]) @@ (2 :> [name |-> <<"b">>])
                        @@ (3 :> [name |-> <<"c">>])
    /\ subCategories = (1 :> [name |-> <<"a">>, categoryId |-> 1])
                           @@ (2 :> [name |-> <<"b">>, categoryId |-> 1])
                           @@ (3 :> [name |-> <<"a">>, categoryId |-> 2])
    /\ products = <<>>
    /\ allocated = [category |-> 3, subCategory |-> 4, product |-> 0, seeded |-> 7]
    /\ req = [p \in Procs |-> Idle]
    /\ resp = Idle
    /\ now = 0
    /\ seconds = 0
    /\ issued = {}
    /\ modal = ModalClosed
    /\ dashboard = DashboardMounted
    /\ view = ViewMounted

\* The seeded store with four Products of SubCategory 1, three of them of
\* one updatedAt, as Product.insertMany of the seed script leaves them.
ListedProduct(name, qty, updatedAt) ==
    [subCategoryId |-> 1, name |-> name, qty |-> qty, price |-> 1,
     billing |-> 1, image |-> <<>>, sampleLocation |-> <<>>,
     ghodaLocation |-> <<>>, createdAt |-> updatedAt, updatedAt |-> updatedAt]

InitListed ==
    /\ categories = (1 :> [name |-> <<"a">>]) @@ (2 :> [name |-> <<"b">>])
                        @@ (3 :> [name |-> <<"c">>])
    /\ subCategories = (1 :> [name |-> <<"a">>, categoryId |-> 1])
                           @@ (2 :> [name |-> <<"b">>, categoryId |-> 1])
                           @@ (3 :> [name |-> <<"a">>, categoryId |-> 2])
    /\ products = (1 :> ListedProduct(<<"a">>, 0, 0))
                      @@ (2 :> ListedProduct(<<"b">>, 2, 0))
                      @@ (3 :> ListedProduct(<<"a">>, 2, 0))
                      @@ (4 :> ListedProduct(<<"b">>, 0, 1))
    /\ allocated = [category |-> 3, subCategory |-> 4, product |-> 4, seeded |-> 11]
    /\ req = [p \in Procs |-> Idle]
    /\ resp = Idle
    /\ now = 1
    /\ seconds = 0
    /\ issued = {}
    /\ modal = ModalClosed
    /\ dashboard = DashboardMounted
    /\ view = ViewMounted

(***************************************************************************)
(* The store.                                                              *)
(***************************************************************************)
\* f without the keys in ks.
Without(f, ks) == [k \in DOMAIN f \ ks |-> f[k]]

\* f with key k bound to v.
With(f, k, v) == [x \in DOMAIN f \cup {k} |-> IF x = k THEN v ELSE f[x]]

\* Category.name without its unique index.
CategoryIndexAbsent(name, self) == TRUE

\* The unique index on Category.name: exact equality of the stored name.
CategoryIndexAdmits(name, self) ==
    \A i \in DOMAIN categories \ {self} : categories[i].name # name

\* The unique compound index { name: 1, categoryId: 1 } of SubCategory.
SubCategoryIndexAdmits(name, categoryId, self) ==
    \A i \in DOMAIN subCategories \ {self} :
        ~(subCategories[i].name = name /\ subCategories[i].categoryId = categoryId)

\* Category.findOne({ name: /^name$/i, _id: { $ne: self } }) finds a document.
CategoryNameTaken(name, self) ==
    \E i \in DOMAIN categories \ {self} : NameRegexMatches(name, categories[i].name)

\* SubCategory.findOne({ name: /^name$/i, categoryId, _id: { $ne: self } }).
SubCategoryNameTaken(name, categoryId, self) ==
    \E i \in DOMAIN subCategories \ {self} :
        /\ subCategories[i].categoryId = categoryId
        /\ NameRegexMatches(name, subCategories[i].name)

\* A find that matches no SubCategory.
SubCategoriesOfNone(categoryId) == {}

\* A find that matches the SubCategories of every Category.
SubCategoriesOfAny(categoryId) == DOMAIN subCategories

\* SubCategory.find({ categoryId }).map(sc => sc._id)
SubCategoriesOf(categoryId) ==
    {i \in DOMAIN subCategories : subCategories[i].categoryId = categoryId}

\* A deleteMany that matches the Products of the first id only.
ProductsOfFirst(ids) ==
    {i \in DOMAIN products :
        /\ ids # {}
        /\ products[i].subCategoryId = CHOOSE m \in ids : \A n \in ids : m <= n}

\* A deleteMany whose filter matches every Product.
ProductsOfAny(id) == DOMAIN products

\* The ids matched by Product.deleteMany({ subCategoryId: id }).
ProductsOf(id) == {i \in DOMAIN products : products[i].subCategoryId = id}

\* A deleteMany that matches no Product.
ProductsInNone(ids) == {}

\* The ids matched by Product.deleteMany({ subCategoryId: { $in: ids } }).
ProductsIn(ids) == {i \in DOMAIN products : products[i].subCategoryId \in ids}

\* A create that does not look the SubCategory up.
SubCategoryUnchecked(id) == TRUE

\* SubCategory.findById(subCategoryId) returns a document.
SubCategoryExists(id) == id \in DOMAIN subCategories

\* protect: only a request with a valid bearer token reaches the handler.
\* A check that lets every request through.
ProtectAnyone(tok) == TRUE

Protect(tok) == tok = "valid"

Tokens == {"valid", "invalid"}

(***************************************************************************)
(* routes/categories.js                                                    *)
(***************************************************************************)
\* POST /api/categories up to the duplicate check: protect, the validators,
\* new RegExp and Category.findOne.
CategoryCreateBegin(p, tok, raw) ==
    /\ Free(p)
    /\ CanAllocate
    /\ \E fail \in BOOLEAN :
         LET name == Trim(raw)
             r == [Start("createCategory", "find", tok) EXCEPT !.name = name]
         IN Settle(p,
                IF ~Protect(tok) THEN Respond(r, 401, "unauthorized")
                ELSE IF ~ValidName(name, CategoryNameMax)
                     THEN Respond(r, 400, "validation")
                ELSE IF ~RegExpCompiles(name) THEN ServerError(r, "syntax")
                ELSE IF fail THEN ServerError(r, "store")
                ELSE IF CategoryNameTaken(name, 0) THEN Respond(r, 400, "exists")
                ELSE [r EXCEPT !.pc = "insert"])
    /\ UNCHANGED <<categories, subCategories, products, allocated, now, outside>>

\* Category.create({ name }) and the 201 response.
CategoryCreateInsert(p) ==
    /\ req[p].op = "createCategory"
    /\ req[p].pc = "insert"
    /\ \E fail \in BOOLEAN :
         LET r == req[p]
             id == allocated.category + 1
             dup == ~CategoryIndexAdmits(r.name, 0)
             ok == ~fail /\ ~dup
         IN /\ categories' =
                  IF ok THEN With(categories, id, [name |-> r.name]) ELSE categories
            /\ allocated' =
                  IF ok THEN [allocated EXCEPT !.category = id] ELSE allocated
            /\ Settle(p,
                  IF fail THEN ServerError(r, "store")
                  ELSE IF dup THEN ServerError(r, "duplicate")
                  ELSE Respond([r EXCEPT !.id = id], 201, "none"))
    /\ UNCHANGED <<subCategories, products, now, outside>>

\* PUT /api/categories/:id up to the duplicate check.
CategoryRenameBegin(p, tok, id, raw) ==
    /\ Free(p)
    /\ \E fail \in BOOLEAN :
         LET name == Trim(raw)
             r == [Start("updateCategory", "find", tok) EXCEPT !.name = name, !.id = id]
         IN Settle(p,
                IF ~Protect(tok) THEN Respond(r, 401, "unauthorized")
                ELSE IF ~ValidName(name, CategoryNameMax)
                     THEN Respond(r, 400, "validation")
                ELSE IF ~RegExpCompiles(name) THEN ServerError(r, "syntax")
                ELSE IF fail THEN ServerError(r, "store")
                ELSE IF CategoryNameTaken(name, id) THEN Respond(r, 400, "exists")
                ELSE [r EXCEPT !.pc = "write"])
    /\ UNCHANGED <<categories, subCategories, products, allocated, now, outside>>

\* Category.findByIdAndUpdate(id, { name }) and the response.
CategoryRenameWrite(p) ==
    /\ req[p].op = "updateCategory"
    /\ req[p].pc = "write"
    /\ \E fail \in BOOLEAN :
         LET r == req[p]
             found == r.id \in DOMAIN categories
             dup == found /\ ~CategoryIndexAdmits(r.name, r.id)
             ok == ~fail /\ found /\ ~dup
         IN /\ categories' =
                  IF ok THEN [categories EXCEPT ![r.id].name = r.name] ELSE categories
            /\ Settle(p,
                  IF fail THEN ServerError(r, "store")
                  ELSE IF ~found THEN Respond(r, 404, "notfound")
                  ELSE IF dup THEN ServerError(r, "duplicate")
                  ELSE Respond(r, 200, "none"))
    /\ UNCHANGED <<subCategories, products, allocated, now, outside>>

\* DELETE /api/categories/:id: protect and Category.findById.
CategoryDeleteBegin(p, tok, id) ==
    /\ Free(p)
    /\ \E fail \in BOOLEAN :
         LET r == [Start("deleteCategory", "find", tok) EXCEPT !.id = id]
         IN Settle(p,
                IF ~Protect(tok) THEN Respond(r, 401, "unauthorized")
                ELSE IF fail THEN ServerError(r, "store")
                ELSE IF id \notin DOMAIN categories THEN Respond(r, 404, "notfound")
                ELSE [r EXCEPT !.pc = "listSubs"])
    /\ UNCHANGED <<categories, subCategories, products, allocated, now, outside>>

\* SubCategory.find({ categoryId }) and the map to subCategoryIds.
CategoryDeleteListSubs(p) ==
    /\ req[p].op = "deleteCategory"
    /\ req[p].pc = "listSubs"
    /\ \E fail \in BOOLEAN :
         LET r == req[p]
         IN Settle(p,
                IF fail THEN ServerError(r, "store")
                ELSE [r EXCEPT !.pc = "deleteProducts",
                               !.kids = SubCategoriesOf(r.id)])
    /\ UNCHANGED <<categories, subCategories, products, allocated, now, outside>>

\* Product.deleteMany({ subCategoryId: { $in: subCategoryIds } })
CategoryDeleteProducts(p) ==
    /\ req[p].op = "deleteCategory"
    /\ req[p].pc = "deleteProducts"
    /\ \E fail \in BOOLEAN :
         LET r == req[p]
         IN /\ products' =
                  IF fail THEN products ELSE Without(products, ProductsIn(r.kids))
            /\ Settle(p,
                  IF fail THEN ServerError(r, "store")
                  ELSE [r EXCEPT !.pc = "deleteSubs"])
    /\ UNCHANGED <<categories, subCategories, allocated, now, outside>>

\* SubCategory.deleteMany({ categoryId })
CategoryDeleteSubs(p) ==
    /\ req[p].op = "deleteCategory"
    /\ req[p].pc = "deleteSubs"
    /\ \E fail \in BOOLEAN :
         LET r == req[p]
         IN /\ subCategories' =
                  IF fail THEN subCategories
                  ELSE Without(subCategories, SubCategoriesOf(r.id))
            /\ Settle(p,
                  IF fail THEN ServerError(r, "store")
                  ELSE [r EXCEPT !.pc = "deleteSelf"])
    /\ UNCHANGED <<categories, products, allocated, now, outside>>

\* Category.findByIdAndDelete(id) and the success response.
CategoryDeleteSelf(p) ==
    /\ req[p].op = "deleteCategory"
    /\ req[p].pc = "deleteSelf"
    /\ \E fail \in BOOLEAN :
         LET r == req[p]
         IN /\ categories' =
                  IF fail THEN categories ELSE Without(categories, {r.id})
            /\ Settle(p,
                  IF fail THEN ServerError(r, "store") ELSE Respond(r, 200, "none"))
    /\ UNCHANGED <<subCategories, products, allocated, now, outside>>

\* GET /api/categories/:id with a valid token: the status of the response.
CategoryGet(id) == IF id \in DOMAIN categories THEN 200 ELSE 404

(***************************************************************************)
(* routes/subcategories.js                                                 *)
(***************************************************************************)
\* POST /api/subcategories up to the duplicate check.  The handler never
\* looks the Category up.
SubCategoryCreateBegin(p, tok, raw, categoryId) ==
    /\ Free(p)
    /\ CanAllocate
    /\ \E fail \in BOOLEAN :
         LET name == Trim(raw)
             r == [Start("createSubCategory", "find", tok) EXCEPT
                      !.name = name, !.parent = categoryId]
         IN Settle(p,
                IF ~Protect(tok) THEN Respond(r, 401, "unauthorized")
                ELSE IF ~ValidName(name, SubCategoryNameMax)
                     THEN Respond(r, 400, "validation")
                ELSE IF ~RegExpCompiles(name) THEN ServerError(r, "syntax")
                ELSE IF fail THEN ServerError(r, "store")
                ELSE IF SubCategoryNameTaken(name, categoryId, 0)
                     THEN Respond(r, 400, "exists")
                ELSE [r EXCEPT !.pc = "insert"])
    /\ UNCHANGED <<categories, subCategories, products, allocated, now, outside>>

\* SubCategory.create({ name, categoryId })
SubCategoryCreateInsert(p) ==
    /\ req[p].op = "createSubCategory"
    /\ req[p].pc = "insert"
    /\ \E fail \in BOOLEAN :
         LET r == req[p]
             id == allocated.subCategory + 1
             dup == ~SubCategoryIndexAdmits(r.name, r.parent, 0)
             ok == ~fail /\ ~dup
         IN /\ subCategories' =
                  IF ok
                  THEN With(subCategories, id, [name |-> r.name, categoryId |-> r.parent])
                  ELSE subCategories
            /\ allocated' =
                  IF ok THEN [allocated EXCEPT !.subCategory = id] ELSE allocated
            /\ Settle(p,
                  IF fail THEN ServerError(r, "store")
                  ELSE IF dup THEN ServerError(r, "duplicate")
                  ELSE [r EXCEPT !.id = id, !.pc = "populate"])
    /\ UNCHANGED <<categories, products, now, outside>>

\* SubCategory.findById(subCategory._id).populate(...) and the 201 response.
SubCategoryCreatePopulate(p) ==
    /\ req[p].op = "createSubCategory"
    /\ req[p].pc = "populate"
    /\ \E fail \in BOOLEAN :
         Settle(p,
                    IF fail THEN ServerError(req[p], "store")
                    ELSE Respond(req[p], 201, "none"))
    /\ UNCHANGED <<categories, subCategories, products, allocated, now, outside>>

\* PUT /api/subcategories/:id: protect, the validators and SubCategory.findById.
SubCategoryRenameBegin(p, tok, id, raw) ==
    /\ Free(p)
    /\ \E fail \in BOOLEAN :
         LET name == Trim(raw)
             r == [Start("updateSubCategory", "find", tok) EXCEPT !.name = name, !.id = id]
         IN Settle(p,
                IF ~Protect(tok) THEN Respond(r, 401, "unauthorized")
                ELSE IF ~ValidName(name, SubCategoryNameMax)
                     THEN Respond(r, 400, "validation")
                ELSE IF fail THEN ServerError(r, "store")
                ELSE IF id \notin DOMAIN subCategories
                     THEN Respond(r, 404, "notfound")
                ELSE [r EXCEPT !.pc = "check",
                               !.parent = subCategories[id].categoryId])
    /\ UNCHANGED <<categories, subCategories, products, allocated, now, outside>>

\* new RegExp and SubCategory.findOne for another document of that name in
\* subCategory.categoryId.
SubCategoryRenameCheck(p) ==
    /\ req[p].op = "updateSubCategory"
    /\ req[p].pc = "check"
    /\ \E fail \in BOOLEAN :
         LET r == req[p]
         IN Settle(p,
                IF ~RegExpCompiles(r.name) THEN ServerError(r, "syntax")
                ELSE IF fail THEN ServerError(r, "store")
                ELSE IF SubCategoryNameTaken(r.name, r.parent, r.id)
                     THEN Respond(r, 400, "exists")
                ELSE [r EXCEPT !.pc = "write"])
    /\ UNCHANGED <<categories, subCategories, products, allocated, now, outside>>

\* SubCategory.findByIdAndUpdate(id, { name }); a document deleted meanwhile
\* gives res.json(null) with status 200.
SubCategoryRenameWrite(p) ==
    /\ req[p].op = "updateSubCategory"
    /\ req[p].pc = "write"
    /\ \E fail \in BOOLEAN :
         LET r == req[p]
             found == r.id \in DOMAIN subCategories
             dup == found /\ ~SubCategoryIndexAdmits(r.name,
                                    subCategories[r.id].categoryId, r.id)
             ok == ~fail /\ found /\ ~dup
         IN /\ subCategories' =
                  IF ok THEN [subCategories EXCEPT ![r.id].name = r.name]
                  ELSE subCategories
            /\ Settle(p,
                  IF fail THEN ServerError(r, "store")
                  ELSE IF ~found THEN Respond(r, 200, "null")
                  ELSE IF dup THEN ServerError(r, "duplicate")
                  ELSE Respond(r, 200, "none"))
    /\ UNCHANGED <<categories, products, allocated, now, outside>>

\* DELETE /api/subcategories/:id: protect and SubCategory.findById.
SubCategoryDeleteBegin(p, tok, id) ==
    /\ Free(p)
    /\ \E fail \in BOOLEAN :
         LET r == [Start("deleteSubCategory", "find", tok) EXCEPT !.id = id]
         IN Settle(p,
                IF ~Protect(tok) THEN Respond(r, 401, "unauthorized")
                ELSE IF fail THEN ServerError(r, "store")
                ELSE IF id \notin DOMAIN subCategories
                     THEN Respond(r, 404, "notfound")
                ELSE [r EXCEPT !.pc = "deleteProducts"])
    /\ UNCHANGED <<categories, subCategories, products, allocated, now, outside>>

\* Product.deleteMany({ subCategoryId: req.params.id })
SubCategoryDeleteProducts(p) ==
    /\ req[p].op = "deleteSubCategory"
    /\ req[p].pc = "deleteProducts"
    /\ \E fail \in BOOLEAN :
         LET r == req[p]
         IN /\ products' =
                  IF fail THEN products ELSE Without(products, ProductsOf(r.id))
            /\ Settle(p,
                  IF fail THEN ServerError(r, "store")
                  ELSE [r EXCEPT !.pc = "deleteSelf"])
    /\ UNCHANGED <<categories, subCategories, allocated, now, outside>>

\* SubCategory.findByIdAndDelete(id) and the success response.
SubCategoryDeleteSelf(p) ==
    /\ req[p].op = "deleteSubCategory"
    /\ req[p].pc = "deleteSelf"
    /\ \E fail \in BOOLEAN :
         LET r == req[p]
         IN /\ subCategories' =
                  IF fail THEN subCategories ELSE Without(subCategories, {r.id})
            /\ Settle(p,
                  IF fail THEN ServerError(r, "store") ELSE Respond(r, 200, "none"))
    /\ UNCHANGED <<categories, products, allocated, now, outside>>

\* GET /api/subcategories/:id with a valid token: the status of the response.
SubCategoryGet(id) == IF id \in DOMAIN subCategories THEN 200 ELSE 404

(***************************************************************************)
(* routes/products.js                                                      *)
(***************************************************************************)
\* isNumeric() alone.
AmountOfAnySign(s) == IsNumeric(s)

\* isNumeric() and custom(val => val >= 0) on qty, price or billing.
ValidAmount(s) == IsNumeric(s) /\ Number(s) >= 0

\* The validators of POST /api/products on name, qty, price and billing; a
\* field the body does not carry is validated as the empty string.
ValidProductBody(b) ==
    /\ ValidName(Trim(b.name), ProductNameMax)
    /\ ValidAmount(b.qty)
    /\ ValidAmount(b.price)
    /\ ValidAmount(b.billing)

\* The validators of PUT /api/products/:id: optional() passes a field the
\* body does not carry.
ValidProductUpdate(b) ==
    /\ "name" \in b.given => ValidName(Trim(b.name), ProductNameMax)
    /\ "qty" \in b.given => ValidAmount(b.qty)
    /\ "price" \in b.given => ValidAmount(b.price)
    /\ "billing" \in b.given => ValidAmount(b.billing)

\* What a response shows of a Product: the document and the virtual rakam,
\* this.billing * this.price.
\* A view whose rakam is that of the stored document.
ViewOfStored(id, doc) ==
    [id |-> id, doc |-> doc, rakam |-> products[id].billing * products[id].price]

ViewOf(id, doc) == [id |-> id, doc |-> doc, rakam |-> doc.billing * doc.price]

ProductView(id) == ViewOf(id, products[id])

\* POST /api/products: protect, the validators and SubCategory.findById.
ProductCreateBegin(p, tok, b, subCategoryId) ==
    /\ Free(p)
    /\ CanAllocate
    /\ \E fail \in BOOLEAN :
         LET r == [Start("createProduct", "find", tok) EXCEPT
                      !.body = [b EXCEPT !.name = Trim(b.name)],
                      !.parent = subCategoryId]
         IN Settle(p,
                IF ~Protect(tok) THEN Respond(r, 401, "unauthorized")
                ELSE IF ~ValidProductBody(b) THEN Respond(r, 400, "validation")
                ELSE IF fail THEN ServerError(r, "store")
                ELSE IF ~SubCategoryExists(subCategoryId)
                     THEN Respond(r, 400, "notfound")
                ELSE [r EXCEPT !.pc = "insert"])
    /\ UNCHANGED <<categories, subCategories, products, allocated, now, outside>>

\* Product.create({ name, subCategoryId, qty, price, billing, ... })
ProductCreateInsert(p) ==
    /\ req[p].op = "createProduct"
    /\ req[p].pc = "insert"
    /\ \E fail \in BOOLEAN :
         LET r == req[p]
             id == allocated.product + 1
             doc == [subCategoryId |-> r.parent, name |-> r.body.name,
                     qty |-> Number(r.body.qty), price |-> Number(r.body.price),
                     billing |-> Number(r.body.billing),
                     image |-> r.body.image,
                     sampleLocation |-> Trim(r.body.sampleLocation),
                     ghodaLocation |-> Trim(r.body.ghodaLocation),
                     createdAt |-> now, updatedAt |-> now]
         IN /\ products' = IF fail THEN products ELSE With(products, id, doc)
            /\ allocated' =
                  IF fail THEN allocated ELSE [allocated EXCEPT !.product = id]
            /\ Settle(p,
                  IF fail THEN ServerError(r, "store")
                  ELSE [r EXCEPT !.id = id, !.pc = "populate"])
    /\ UNCHANGED <<categories, subCategories, now, outside>>

\* Product.findById(product._id).populate(...) and the 201 response.
ProductCreatePopulate(p) ==
    /\ req[p].op = "createProduct"
    /\ req[p].pc = "populate"
    /\ \E fail \in BOOLEAN :
         Settle(p,
                    IF fail THEN ServerError(req[p], "store")
                    ELSE Respond([req[p] EXCEPT !.out =
                                     IF req[p].id \in DOMAIN products
                                     THEN <<ProductView(req[p].id)>> ELSE <<>>],
                                 201, "none"))
    /\ UNCHANGED <<categories, subCategories, products, allocated, now, outside>>

\* DELETE /api/products/:id: protect and Product.findById.
ProductDeleteBegin(p, tok, id) ==
    /\ Free(p)
    /\ \E fail \in BOOLEAN :
         LET r == [Start("deleteProduct", "find", tok) EXCEPT !.id = id]
         IN Settle(p,
                IF ~Protect(tok) THEN Respond(r, 401, "unauthorized")
                ELSE IF fail THEN ServerError(r, "store")
                ELSE IF id \notin DOMAIN products THEN Respond(r, 404, "notfound")
                ELSE [r EXCEPT !.pc = "deleteSelf"])
    /\ UNCHANGED <<categories, subCategories, products, allocated, now, outside>>

\* Product.findByIdAndDelete(id) and the success response.
ProductDeleteSelf(p) ==
    /\ req[p].op = "deleteProduct"
    /\ req[p].pc = "deleteSelf"
    /\ \E fail \in BOOLEAN :
         LET r == req[p]
         IN /\ products' = IF fail THEN products ELSE Without(products, {r.id})
            /\ Settle(p,
                  IF fail THEN ServerError(r, "store") ELSE Respond(r, 200, "none"))
    /\ UNCHANGED <<categories, subCategories, allocated, now, outside>>

\* GET /api/products/:id with a valid token: the status of the response.
ProductGet(id) == IF id \in DOMAIN products THEN 200 ELSE 404

\* GET /api/products/:id: protect, Product.findById(...).populate(...) and
\* the response.
ProductGetRequest(p, tok, id) ==
    /\ Free(p)
    /\ \E fail \in BOOLEAN :
         LET r == [Start("getProduct", "find", tok) EXCEPT !.id = id]
         IN Settle(p,
                IF ~Protect(tok) THEN Respond(r, 401, "unauthorized")
                ELSE IF fail THEN ServerError(r, "store")
                ELSE IF id \notin DOMAIN products THEN Respond(r, 404, "notfound")
                ELSE Respond([r EXCEPT !.out = <<ProductView(id)>>], 200, "none"))
    /\ UNCHANGED <<categories, subCategories, products, allocated, now, outside>>

\* The sanitizer of PUT /api/products/:id: trim() on a name the body carries.
SanitizedUpdate(b) ==
    [b EXCEPT !.name = IF "name" \in b.given THEN Trim(b.name) ELSE b.name]

\* PUT /api/products/:id: protect, the validators and Product.findById.
ProductUpdateBegin(p, tok, id, b) ==
    /\ Free(p)
    /\ \E fail \in BOOLEAN :
         LET r == [Start("updateProduct", "find", tok) EXCEPT
                      !.id = id, !.body = SanitizedUpdate(b)]
         IN Settle(p,
                IF ~Protect(tok) THEN Respond(r, 401, "unauthorized")
                ELSE IF ~ValidProductUpdate(b) THEN Respond(r, 400, "validation")
                ELSE IF fail THEN ServerError(r, "store")
                ELSE IF id \notin DOMAIN products THEN Respond(r, 404, "notfound")
                ELSE [r EXCEPT !.pc = "write"])
    /\ UNCHANGED <<categories, subCategories, products, allocated, now, outside>>

\* An update that leaves updatedAt alone.
UpdatedKeepsTime(doc, b) ==
    [doc EXCEPT
        !.name = IF "name" \in b.given THEN b.name ELSE @,
        !.qty = IF "qty" \in b.given THEN Number(b.qty) ELSE @,
        !.price = IF "price" \in b.given THEN Number(b.price) ELSE @,
        !.billing = IF "billing" \in b.given THEN Number(b.billing) ELSE @]

\* An update that writes every field of the body, carried or not.
UpdatedWhole(doc, b) ==
    [doc EXCEPT !.name = b.name, !.qty = Number(b.qty), !.price = Number(b.price),
                !.billing = Number(b.billing), !.image = b.image,
                !.sampleLocation = Trim(b.sampleLocation),
                !.ghodaLocation = Trim(b.ghodaLocation), !.updatedAt = now]

\* updateData of the body b applied to the document doc, with the
\* updatedAt that pre('findOneAndUpdate') sets.
Updated(doc, b) ==
    [doc EXCEPT
        !.name = IF "name" \in b.given THEN b.name ELSE @,
        !.qty = IF "qty" \in b.given THEN Number(b.qty) ELSE @,
        !.price = IF "price" \in b.given THEN Number(b.price) ELSE @,
        !.billing = IF "billing" \in b.given THEN Number(b.billing) ELSE @,
        !.image = IF "image" \in b.given THEN b.image ELSE @,
        !.sampleLocation =
            IF "sampleLocation" \in b.given THEN Trim(b.sampleLocation) ELSE @,
        !.ghodaLocation =
            IF "ghodaLocation" \in b.given THEN Trim(b.ghodaLocation) ELSE @,
        !.updatedAt = now]

\* Product.findByIdAndUpdate(id, updateData, { new: true, ... }).populate(...)
\* and res.json(updatedProduct), which is null when the Product is gone.
ProductUpdateWrite(p) ==
    /\ req[p].op = "updateProduct"
    /\ req[p].pc = "write"
    /\ \E fail \in BOOLEAN :
         LET r == req[p]
             found == r.id \in DOMAIN products
             doc == Updated(products[r.id], r.body)
         IN /\ products' =
                  IF fail \/ ~found THEN products ELSE With(products, r.id, doc)
            /\ Settle(p,
                  IF fail THEN ServerError(r, "store")
                  ELSE IF ~found THEN Respond(r, 200, "null")
                  ELSE Respond([r EXCEPT !.out = <<ViewOf(r.id, doc)>>], 200, "none"))
    /\ UNCHANGED <<categories, subCategories, allocated, now, outside>>

\* name: { $regex: search, $options: 'i' }: the pattern matches somewhere in
\* the name.
SearchMatches(search, name) ==
    \E i \in 1 .. Len(name) + 1, j \in 0 .. Len(name) :
        NameRegexMatches(search, SubSeq(name, i, j))

\* A query whose quantity bounds are exclusive.
QueryMatchesInside(q, scope, id) ==
    LET doc == products[id]
    IN /\ "subCategoryId" \in q.given => doc.subCategoryId = q.subCategoryId
       /\ ("categoryId" \in q.given /\ "subCategoryId" \notin q.given) =>
             doc.subCategoryId \in scope
       /\ ("search" \in q.given /\ q.search # <<>>) =>
             SearchMatches(q.search, doc.name)
       /\ "qtyMin" \in q.given => doc.qty > Number(q.qtyMin)
       /\ "qtyMax" \in q.given => doc.qty < Number(q.qtyMax)

\* The query object of a Product list, applied to Product id; scope is the
\* subCategoryIds resolved for a categoryId.
QueryMatches(q, scope, id) ==
    LET doc == products[id]
    IN /\ "subCategoryId" \in q.given => doc.subCategoryId = q.subCategoryId
       /\ ("categoryId" \in q.given /\ "subCategoryId" \notin q.given) =>
             doc.subCategoryId \in scope
       /\ ("search" \in q.given /\ q.search # <<>>) =>
             SearchMatches(q.search, doc.name)
       /\ "qtyMin" \in q.given => doc.qty >= Number(q.qtyMin)
       /\ "qtyMax" \in q.given => doc.qty <= Number(q.qtyMax)

Matching(q, scope) == {id \in DOMAIN products : QueryMatches(q, scope, id)}

RECURSIVE Orders(_)
Orders(ids) ==
    IF ids = {} THEN {<<>>}
    ELSE UNION {{<<x>> \o t : t \in Orders(ids \ {x})} : x \in ids}

\* sort({ updatedAt: -1 }): the orders the store may return the documents
\* in; documents of one updatedAt come in any order.
SortedOrders(ids) ==
    {o \in Orders(ids) :
        \A i, j \in DOMAIN o :
            i < j => products[o[i]].updatedAt >= products[o[j]].updatedAt}

PageOf(q) == IF "page" \in q.given THEN Number(q.page) ELSE DefaultPage
LimitOf(q) == IF "limit" \in q.given THEN Number(q.limit) ELSE DefaultLimit
SkipOf(q) == (PageOf(q) - 1) * LimitOf(q)

\* skip(skip).limit(limit) of the sorted documents.
Window(order, skip, limit) ==
    SubSeq(order, skip + 1, IF skip + limit < Len(order) THEN skip + limit
                            ELSE Len(order))

\* Math.ceil(total / limit)
Ceil(total, limit) == (total + limit - 1) \div limit

\* Product.find(query).sort(...).skip(...).limit(...) with countDocuments, and
\* the response; the store rejects a negative skip.
FindPage(r, order) ==
    LET q == r.query
        ids == Window(order, SkipOf(q), LimitOf(q))
    IN IF SkipOf(q) < 0 \/ ~RegExpCompiles(q.search) THEN ServerError(r, "store")
       ELSE Respond([r EXCEPT !.out = [i \in DOMAIN ids |-> ProductView(ids[i])],
                              !.total = Len(order),
                              !.pages = Ceil(Len(order), LimitOf(q))],
                    200, "none")

\* GET /api/products: protect, the query object and, for a categoryId
\* without a subCategoryId, SubCategory.find({ categoryId }).
ProductListBegin(p, tok, q) ==
    /\ Free(p)
    /\ \E fail \in BOOLEAN :
         LET r == [Start("listProducts", "find", tok) EXCEPT !.query = q]
             scoped == "categoryId" \in q.given /\ "subCategoryId" \notin q.given
         IN Settle(p,
                IF ~Protect(tok) THEN Respond(r, 401, "unauthorized")
                ELSE IF scoped /\ fail THEN ServerError(r, "store")
                ELSE IF scoped THEN [r EXCEPT !.kids = SubCategoriesOf(q.categoryId)]
                ELSE r)
    /\ UNCHANGED <<categories, subCategories, products, allocated, now, outside>>

\* GET /api/products: Product.find and Product.countDocuments.
ProductListFind(p) ==
    /\ req[p].op = "listProducts"
    /\ req[p].pc = "find"
    /\ \E fail \in BOOLEAN :
         \E order \in SortedOrders(Matching(req[p].query, req[p].kids)) :
             Settle(p,
                 IF fail THEN ServerError(req[p], "store")
                 ELSE FindPage(req[p], order))
    /\ UNCHANGED <<categories, subCategories, products, allocated, now, outside>>

\* GET /api/products/search: protect and the query object, which has no
\* subCategoryId and no categoryId.
ProductSearchBegin(p, tok, q) ==
    /\ Free(p)
    /\ LET r == [Start("searchProducts", "find", tok) EXCEPT
                    !.query = [q EXCEPT !.given = @ \ {"subCategoryId", "categoryId"},
                                        !.subCategoryId = 0, !.categoryId = 0]]
       IN Settle(p, IF ~Protect(tok) THEN Respond(r, 401, "unauthorized") ELSE r)
    /\ UNCHANGED <<categories, subCategories, products, allocated, now, outside>>

\* GET /api/products/search: Product.find and Product.countDocuments.
ProductSearchFind(p) ==
    /\ req[p].op = "searchProducts"
    /\ req[p].pc = "find"
    /\ \E fail \in BOOLEAN :
         \E order \in SortedOrders(Matching(req[p].query, {})) :
             Settle(p,
                 IF fail THEN ServerError(req[p], "store")
                 ELSE FindPage(req[p], order))
    /\ UNCHANGED <<categories, subCategories, products, allocated, now, outside>>

(***************************************************************************)
(* The reads of routes/categories.js and routes/subcategories.js           *)
(***************************************************************************)
\* The UTF-16 code unit of a character the model uses in names.
CodeUnit(c) ==
    CASE c = Space -> 32
      [] c = "+" -> 43
      [] c = "." -> 46
      [] c = "A" -> 65
      [] c = "B" -> 66
      [] c = "a" -> 97
      [] c = "b" -> 98
      [] c = "c" -> 99

\* Name a does not sort after name b in the store's binary string order.
RECURSIVE NameNotAfter(_, _)
NameNotAfter(a, b) ==
    IF a = <<>> THEN TRUE
    ELSE IF b = <<>> THEN FALSE
    ELSE IF Head(a) = Head(b) THEN NameNotAfter(Tail(a), Tail(b))
    ELSE CodeUnit(Head(a)) < CodeUnit(Head(b))

\* sort({ name: 1 }): the orders the store may return the documents of
\* collection docs in; documents of one name come in any order.
NameOrders(docs, ids) ==
    {o \in Orders(ids) :
        \A i, j \in DOMAIN o :
            i < j => NameNotAfter(docs[o[i]].name, docs[o[j]].name)}

\* A count that takes every SubCategory for a child.
SubCategoriesCountOfAll(id) == Cardinality(DOMAIN subCategories)

\* The virtual subCategoriesCount: the SubCategories whose categoryId is id,
\* counted by populate at the fetch.
SubCategoriesCount(id) ==
    Cardinality({sc \in DOMAIN subCategories : subCategories[sc].categoryId = id})

\* The virtual productsCount: the Products whose subCategoryId is id, counted
\* by populate at the fetch.
ProductsCount(id) ==
    Cardinality({x \in DOMAIN products : products[x].subCategoryId = id})

\* A Category as res.json sends it, virtuals included.
CategoryView(id) ==
    [id |-> id, doc |-> categories[id],
     subCategoriesCount |-> SubCategoriesCount(id)]

\* populate('categoryId', 'name'): the name of the Category, or nothing when
\* the id names no Category.
PopulatedCategory(categoryId) ==
    IF categoryId \in DOMAIN categories
    THEN <<categories[categoryId].name>>
    ELSE <<>>

\* A SubCategory as res.json sends it, virtuals included.
SubCategoryView(id) ==
    [id |-> id, doc |-> subCategories[id],
     category |-> PopulatedCategory(subCategories[id].categoryId),
     productsCount |-> ProductsCount(id)]

\* The filter of a list: a search that is not empty is a regular expression
\* to find in the name.
Searched(q) == "search" \in q.given /\ q.search # <<>>

\* GET /api/categories: protect, Category.find(query) with populate and
\* sort, and the response.
CategoryListRequest(p, tok, q) ==
    /\ Free(p)
    /\ \E fail \in BOOLEAN :
         LET r == [Start("listCategories", "find", tok) EXCEPT !.query = q]
             found == {id \in DOMAIN categories :
                          Searched(q) => SearchMatches(q.search, categories[id].name)}
         IN \E order \in NameOrders(categories, found) :
               Settle(p,
                   IF ~Protect(tok) THEN Respond(r, 401, "unauthorized")
                   ELSE IF Searched(q) /\ ~RegExpCompiles(q.search)
                        THEN ServerError(r, "store")
                   ELSE IF fail THEN ServerError(r, "store")
                   ELSE Respond([r EXCEPT !.out = [i \in DOMAIN order |->
                                                      CategoryView(order[i])]],
                                200, "none"))
    /\ UNCHANGED <<categories, subCategories, products, allocated, now, outside>>

\* GET /api/categories/:id: protect, Category.findById with populate, and
\* the response.
CategoryGetRequest(p, tok, id) ==
    /\ Free(p)
    /\ \E fail \in BOOLEAN :
         LET r == [Start("getCategory", "find", tok) EXCEPT !.id = id]
         IN Settle(p,
                IF ~Protect(tok) THEN Respond(r, 401, "unauthorized")
                ELSE IF fail THEN ServerError(r, "store")
                ELSE IF id \notin DOMAIN categories THEN Respond(r, 404, "notfound")
                ELSE Respond([r EXCEPT !.out = <<CategoryView(id)>>], 200, "none"))
    /\ UNCHANGED <<categories, subCategories, products, allocated, now, outside>>

\* GET /api/subcategories: protect, SubCategory.find(query) with both
\* populates and sort, and the response.
SubCategoryListRequest(p, tok, q) ==
    /\ Free(p)
    /\ \E fail \in BOOLEAN :
         LET r == [Start("listSubCategories", "find", tok) EXCEPT !.query = q]
             found == {id \in DOMAIN subCategories :
                          /\ "categoryId" \in q.given =>
                                subCategories[id].categoryId = q.categoryId
                          /\ Searched(q) =>
                                SearchMatches(q.search, subCategories[id].name)}
         IN \E order \in NameOrders(subCategories, found) :
               Settle(p,
                   IF ~Protect(tok) THEN Respond(r, 401, "unauthorized")
                   ELSE IF Searched(q) /\ ~RegExpCompiles(q.search)
                        THEN ServerError(r, "store")
                   ELSE IF fail THEN ServerError(r, "store")
                   ELSE Respond([r EXCEPT !.out = [i \in DOMAIN order |->
                                                      SubCategoryView(order[i])]],
                                200, "none"))
    /\ UNCHANGED <<categories, subCategories, products, allocated, now, outside>>

\* GET /api/subcategories/:id: protect, SubCategory.findById with both
\* populates, and the response.
SubCategoryGetRequest(p, tok, id) ==
    /\ Free(p)
    /\ \E fail \in BOOLEAN :
         LET r == [Start("getSubCategory", "find", tok) EXCEPT !.id = id]
         IN Settle(p,
                IF ~Protect(tok) THEN Respond(r, 401, "unauthorized")
                ELSE IF fail THEN ServerError(r, "store")
                ELSE IF id \notin DOMAIN subCategories
                     THEN Respond(r, 404, "notfound")
                ELSE Respond([r EXCEPT !.out = <<SubCategoryView(id)>>], 200, "none"))
    /\ UNCHANGED <<categories, subCategories, products, allocated, now, outside>>

(***************************************************************************)
(* routes/auth.js                                                          *)
(***************************************************************************)
\* A token that lives one second.
GenerateTokenForASecond(id, at) ==
    [id |-> id, iat |-> at, exp |-> at + 1, signed |-> TRUE]

\* generateToken(id) at second at: jwt.sign({ id }, JWT_SECRET,
\* { expiresIn: '30d' }) stamps iat and exp = iat + 30 days.
GenerateToken(id, at) ==
    [id |-> id, iat |-> at, exp |-> at + ExpiresIn, signed |-> TRUE]

\* The check of signature and expiry at second at: a token is expired from
\* its exp on.
Verified(token, at) == token.signed /\ at < token.exp

\* What protect makes of the token a request carries at second at.
Presented(token, at) == IF Verified(token, at) THEN "valid" ELSE "invalid"

\* The one user of the seed script.
UserId == 1

\* POST /api/auth/login: the validators and User.findOne({ username });
\* named says whether the body has a username, found whether a user has it.
LoginBegin(p, named, found) ==
    /\ Free(p)
    /\ Cardinality(issued) < MaxTokens
    /\ \E fail \in BOOLEAN :
         LET r == Start("login", "find", "none")
         IN Settle(p,
                IF ~named THEN Respond(r, 400, "validation")
                ELSE IF fail THEN ServerError(r, "store")
                ELSE IF ~found THEN Respond(r, 401, "credentials")
                ELSE [r EXCEPT !.pc = "match", !.id = UserId])
    /\ UNCHANGED <<categories, subCategories, products, allocated, now, outside>>

\* user.matchPassword(password), and the response with generateToken(user._id).
LoginMatch(p) ==
    /\ req[p].op = "login"
    /\ req[p].pc = "match"
    /\ \E fail \in BOOLEAN, isMatch \in BOOLEAN :
         LET r == req[p]
             token == GenerateToken(r.id, seconds)
             ok == ~fail /\ isMatch
         IN /\ issued' = IF ok THEN issued \cup {token} ELSE issued
            /\ Settle(p,
                  IF fail THEN ServerError(r, "store")
                  ELSE IF ~isMatch THEN Respond(r, 401, "credentials")
                  ELSE Respond([r EXCEPT !.bearer = token], 200, "none"))
    /\ UNCHANGED <<categories, subCategories, products, allocated, now, seconds,
                   modal, dashboard, view>>

\* GET /api/auth/verify: protect, and the response.
VerifyRequest(p, token) ==
    /\ Free(p)
    /\ LET tok == Presented(token, seconds)
           r == [Start("verify", "find", tok) EXCEPT !.bearer = token]
       IN Settle(p,
              IF ~Protect(tok) THEN Respond(r, 401, "unauthorized")
              ELSE Respond([r EXCEPT !.id = token.id], 200, "none"))
    /\ UNCHANGED <<categories, subCategories, products, allocated, now, outside>>

\* The tokens a client may send: those signed for it, the same with another
\* signature, and none.
Sendable ==
    issued \cup {[t EXCEPT !.signed = FALSE] : t \in issued} \cup {NoToken}

\* d seconds pass.
Elapse(d) ==
    /\ seconds' = seconds + d
    /\ UNCHANGED <<categories, subCategories, products, allocated, req, resp,
                   now, issued, modal, dashboard, view>>

(***************************************************************************)
(* components/PasscodeModal.jsx and components/SubCategoryModal.jsx        *)
(***************************************************************************)
CORRECT_PASSCODE == <<"m", "a", "h", "a", "n", "t">>

\* A comparison that ignores the blanks around the passcode.
PasscodeMatchesTrimmed(passcode) == Trim(passcode) = CORRECT_PASSCODE

\* passcode !== CORRECT_PASSCODE, negated.
PasscodeMatches(passcode) == passcode = CORRECT_PASSCODE

\* The parent opens SubCategoryModal to add (0) or to edit a SubCategory.
ModalOpen(subCategory) ==
    /\ ~modal.isOpen
    /\ modal' = [modal EXCEPT !.isOpen = TRUE, !.subCategory = subCategory,
                              !.event = "open"]
    /\ UNCHANGED <<server, dashboard, view>>

\* The Delete Subcategory button, rendered for a subCategory with an
\* onDelete: setShowPasscodeModal(true), and the effect of PasscodeModal on
\* isOpen, which clears passcode and error.
ModalClickDelete ==
    /\ modal.isOpen
    /\ modal.subCategory # 0
    /\ ~modal.showPasscodeModal
    /\ modal' = [modal EXCEPT !.showPasscodeModal = TRUE, !.passcode = <<>>,
                              !.error = "", !.event = "delete"]
    /\ UNCHANGED <<server, dashboard, view>>

\* onChange of the passcode input.
PasscodeType(text) ==
    /\ modal.isOpen
    /\ modal.showPasscodeModal
    /\ modal' = [modal EXCEPT !.passcode = text, !.error = "", !.event = "type"]
    /\ UNCHANGED <<server, dashboard, view>>

\* handleSubmit up to its await: the two checks, then setIsLoading(true) and
\* onConfirm, which is handleDelete and calls onDelete(subCategory._id).
\* The submit button is disabled while isLoading.
PasscodeSubmit ==
    /\ modal.isOpen
    /\ modal.showPasscodeModal
    /\ ~modal.isLoading
    /\ modal.calls < MaxCalls
    /\ modal' =
          IF Trim(modal.passcode) = <<>>
          THEN [modal EXCEPT !.error = "Passcode is required", !.event = "submit"]
          ELSE IF ~PasscodeMatches(modal.passcode)
          THEN [modal EXCEPT !.error = "Incorrect passcode", !.passcode = <<>>,
                             !.event = "submit"]
          ELSE [modal EXCEPT !.error = "", !.isLoading = TRUE, !.awaiting = TRUE,
                             !.calls = @ + 1, !.event = "submit"]
    /\ UNCHANGED <<server, dashboard, view>>

\* onDelete resolved: handleDelete calls the onClose of SubCategoryModal,
\* handleSubmit the onClose of PasscodeModal, and finally setIsLoading(false).
PasscodeConfirmed ==
    /\ modal.awaiting
    /\ modal' = [modal EXCEPT !.isOpen = FALSE, !.showPasscodeModal = FALSE,
                              !.isLoading = FALSE, !.awaiting = FALSE,
                              !.event = "confirmed"]
    /\ UNCHANGED <<server, dashboard, view>>

\* onDelete rejected: the catch block shows a toast, and finally
\* setIsLoading(false); both modals stay as they are.
PasscodeFailed ==
    /\ modal.awaiting
    /\ modal' = [modal EXCEPT !.isLoading = FALSE, !.awaiting = FALSE,
                              !.event = "failed"]
    /\ UNCHANGED <<server, dashboard, view>>

\* The close button of PasscodeModal, or its Cancel button, which is
\* disabled while isLoading: setShowPasscodeModal(false).
PasscodeClose ==
    /\ modal.isOpen
    /\ modal.showPasscodeModal
    /\ modal' = [modal EXCEPT !.showPasscodeModal = FALSE, !.event = "close"]
    /\ UNCHANGED <<server, dashboard, view>>

\* A click on the backdrop of PasscodeModal bubbles to the overlay of
\* SubCategoryModal: both onClose run.  Without PasscodeModal, the overlay,
\* the close button or Cancel of SubCategoryModal: its onClose runs.
ModalClose ==
    /\ modal.isOpen
    /\ modal' = [modal EXCEPT !.isOpen = FALSE, !.showPasscodeModal = FALSE,
                              !.event = "close"]
    /\ UNCHANGED <<server, dashboard, view>>

\* What a user types for a passcode: nothing, a blank, the passcode, the
\* passcode after a blank, and something else.
Typed ==
    {<<>>, <<Space>>, CORRECT_PASSCODE, <<Space>> \o CORRECT_PASSCODE, <<"m">>}

(***************************************************************************)
(* components/Dashboard.jsx: the debounced search                          *)
(***************************************************************************)
\* The rows of one search: the Categories, then the SubCategories, each
\* list as its GET answers it.
SearchRows(cats, subs) ==
    [i \in 1..(Len(cats) + Len(subs)) |->
        IF i <= Len(cats) THEN [type |-> "category", id |-> cats[i]]
        ELSE [type |-> "subcategory", id |-> subs[i - Len(cats)]]]

\* What categoryAPI.getAll(text) and subCategoryAPI.getAll({ search: text })
\* can answer together.
SearchResultsFor(text) ==
    {SearchRows(cats, subs) :
        cats \in NameOrders(categories,
                    {id \in DOMAIN categories :
                        SearchMatches(text, categories[id].name)}),
        subs \in NameOrders(subCategories,
                    {id \in DOMAIN subCategories :
                        SearchMatches(text, subCategories[id].name)})}

\* onChange of the search box: setSearchText; the effect's cleanup clears
\* the pending timer and the effect sets a timer for the new text.
DashboardSearchChange(text) ==
    /\ text # dashboard.searchText
    /\ dashboard' = [dashboard EXCEPT !.searchText = text, !.timer = <<text>>,
                                      !.logged = FALSE]
    /\ UNCHANGED <<server, modal, view>>

\* The timer's callback up to its await: a search for a text that is not
\* blank, and no results for a blank one.
DashboardSearchTimer ==
    /\ dashboard.timer # <<>>
    /\ LET text == dashboard.timer[1]
       IN IF Trim(text) # <<>>
          THEN /\ dashboard.sent < MaxSearches
               /\ dashboard' =
                     [dashboard EXCEPT !.timer = <<>>, !.isSearching = TRUE,
                                       !.sent = @ + 1,
                                       !.inflight = @ \cup
                                           {[n |-> dashboard.sent + 1,
                                             text |-> text]}]
          ELSE dashboard' = [dashboard EXCEPT !.timer = <<>>,
                                              !.searchResults = <<>>]
    /\ UNCHANGED <<server, modal, view>>

\* Both responses of a search arrived: setSearchResults, and finally
\* setIsSearching(false).
DashboardSearchDone(s) ==
    /\ s \in dashboard.inflight
    /\ RegExpCompiles(s.text)
    /\ \E results \in SearchResultsFor(s.text) :
          dashboard' = [dashboard EXCEPT !.inflight = @ \ {s},
                                         !.searchResults = results,
                                         !.isSearching = FALSE]
    /\ UNCHANGED <<server, modal, view>>

\* A response of a search is an error: the catch block logs it, and
\* finally setIsSearching(false).
DashboardSearchFailed(s) ==
    /\ s \in dashboard.inflight
    /\ dashboard' = [dashboard EXCEPT !.inflight = @ \ {s},
                                      !.isSearching = FALSE, !.logged = TRUE]
    /\ UNCHANGED <<server, modal, view>>

\* What a user types into the search box.
TypedSearches == {<<>>, <<Space>>, <<"a">>, <<"b">>}

(***************************************************************************)
(* components/SubCategoryView.jsx: the product list                        *)
(***************************************************************************)
\* A page number or a limit as the query string carries it.
Decimal(n) == <<SubSeq("0123456789", n + 1, n + 1)>>

\* params of fetchProducts(page, append) under filters f.
ViewParams(f, page) ==
    [NoQuery EXCEPT
        !.given = {"subCategoryId", "page", "limit"}
                      \cup (IF f.searchText # <<>> THEN {"search"} ELSE {})
                      \cup (IF f.qtyMin # <<>> THEN {"qtyMin"} ELSE {})
                      \cup (IF f.qtyMax # <<>> THEN {"qtyMax"} ELSE {}),
        !.subCategoryId = view.subCategoryId,
        !.page = Decimal(page), !.limit = Decimal(ViewLimit),
        !.search = f.searchText, !.qtyMin = f.qtyMin, !.qtyMax = f.qtyMax]

\* What GET /api/products can answer to params q.
ViewAnswers(q) ==
    {FindPage([Start("listProducts", "find", "valid") EXCEPT !.query = q], order) :
        order \in SortedOrders(Matching(q, {}))}

\* fetchProducts up to its await.
ViewFetch(v, f, page, appending) ==
    [v EXCEPT !.isLoading = IF appending THEN @ ELSE TRUE,
              !.isLoadingMore = IF appending THEN TRUE ELSE @,
              !.sent = @ + 1,
              !.inflight = @ \cup {[n |-> v.sent + 1, filter |-> f, page |-> page,
                                    appending |-> appending]}]

\* setSearchText or handleQuantityFilterChange: fetchProducts is made anew,
\* the effect's cleanup clears the pending timer and the effect sets one.
ViewFilterChange(f) ==
    /\ f # view.filter
    /\ view' = [view EXCEPT !.filter = f, !.timer = <<f>>, !.failed = FALSE]
    /\ UNCHANGED <<server, modal, dashboard>>

\* The timer's callback: fetchProducts(1, false).
ViewTimer ==
    /\ view.timer # <<>>
    /\ view.sent < MaxFetches
    /\ view' = ViewFetch([view EXCEPT !.timer = <<>>], view.timer[1], 1, FALSE)
    /\ UNCHANGED <<server, modal, dashboard>>

\* handleLoadMore, from the Load More button, which is rendered under a list
\* that is not empty while pagination.page < pagination.pages and is
\* disabled while isLoadingMore.
ViewLoadMore ==
    /\ view.products # <<>>
    /\ view.pagination.page < view.pagination.pages
    /\ ~view.isLoadingMore
    /\ view.sent < MaxFetches
    /\ view' = ViewFetch(view, view.filter, view.pagination.page + 1, TRUE)
    /\ UNCHANGED <<server, modal, dashboard>>

\* The response of a fetch: setProducts, setPagination, and finally both
\* loading flags are cleared.
ViewFetched(s) ==
    /\ s \in view.inflight
    /\ \E a \in ViewAnswers(ViewParams(s.filter, s.page)) :
          /\ a.status = 200
          /\ LET page == [i \in DOMAIN a.out |-> a.out[i].id]
             IN view' = [view EXCEPT
                           !.inflight = @ \ {s},
                           !.products = IF s.appending THEN @ \o page ELSE page,
                           !.shown = IF s.appending THEN @ ELSE s.filter,
                           !.pagination = [page |-> PageOf(a.query),
                                           pages |-> a.pages, total |-> a.total],
                           !.isLoading = FALSE, !.isLoadingMore = FALSE]
    /\ UNCHANGED <<server, modal, dashboard>>

\* A fetch fails: the catch block shows a toast, and finally both loading
\* flags are cleared.
ViewFetchFailed(s) ==
    /\ s \in view.inflight
    /\ view' = [view EXCEPT !.inflight = @ \ {s}, !.isLoading = FALSE,
                            !.isLoadingMore = FALSE, !.failed = TRUE]
    /\ UNCHANGED <<server, modal, dashboard>>

\* The filters a user sets: none, a search text, a least quantity.
Filters ==
    {NoFilter, [NoFilter EXCEPT !.searchText = <<"a">>],
     [NoFilter EXCEPT !.qtyMin = <<"2">>]}

(***************************************************************************)
(* Requests.  Slot p takes a new request with inputs drawn from the given  *)
(* sets, or takes the next step of the request it is serving.              *)
(***************************************************************************)
CategoryRequests(p, toks, names) ==
    \/ \E tok \in toks, raw \in names : CategoryCreateBegin(p, tok, raw)
    \/ \E tok \in toks, raw \in names, id \in KnownIds(allocated.category) :
          CategoryRenameBegin(p, tok, id, raw)
    \/ \E tok \in toks, id \in KnownIds(allocated.category) :
          CategoryDeleteBegin(p, tok, id)

SubCategoryRequests(p, toks, names) ==
    \/ \E tok \in toks, raw \in names, c \in KnownIds(allocated.category) :
          SubCategoryCreateBegin(p, tok, raw, c)
    \/ \E tok \in toks, raw \in names, id \in KnownIds(allocated.subCategory) :
          SubCategoryRenameBegin(p, tok, id, raw)
    \/ \E tok \in toks, id \in KnownIds(allocated.subCategory) :
          SubCategoryDeleteBegin(p, tok, id)

ProductRequests(p, toks, bodies) ==
    \/ \E tok \in toks, b \in bodies, sc \in KnownIds(allocated.subCategory) :
          ProductCreateBegin(p, tok, b, sc)
    \/ \E tok \in toks, id \in KnownIds(allocated.product) :
          ProductDeleteBegin(p, tok, id)

CategorySteps(p) ==
    \/ CategoryCreateInsert(p)
    \/ CategoryRenameWrite(p)
    \/ CategoryDeleteListSubs(p)
    \/ CategoryDeleteProducts(p)
    \/ CategoryDeleteSubs(p)
    \/ CategoryDeleteSelf(p)

SubCategorySteps(p) ==
    \/ SubCategoryCreateInsert(p)
    \/ SubCategoryCreatePopulate(p)
    \/ SubCategoryRenameCheck(p)
    \/ SubCategoryRenameWrite(p)
    \/ SubCategoryDeleteProducts(p)
    \/ SubCategoryDeleteSelf(p)

ProductSteps(p) ==
    \/ ProductCreateInsert(p)
    \/ ProductCreatePopulate(p)
    \/ ProductDeleteSelf(p)

(***************************************************************************)
(* Inputs.                                                                 *)
(***************************************************************************)
PlainNames == {<<"a">>, <<"b">>}

\* Names that differ by case only, names with a regular-expression
\* quantifier, and names the validators sanitize or reject.
AwkwardNames ==
    {<<>>, <<"a">>, <<"A">>, <<Space, "a">>, <<"a", "+">>, <<"A", "+">>, <<"+">>}

GoodBody ==
    [NoBody EXCEPT !.given = {"name", "qty", "price", "billing"},
                   !.name = <<"a">>, !.qty = <<"1">>, !.price = <<"1">>,
                   !.billing = <<"1">>]
BadBody == [GoodBody EXCEPT !.qty = <<"-", "1">>]

\* A name one character longer than max.
LongName(max) == [i \in 1 .. max + 1 |-> "a"]

\* Names the validators reject.
BadNames(max) == {<<>>, <<Space>>, LongName(max)}

\* Bodies of POST /api/products: one that passes the validators, and bodies
\* with a bad name, a negative or non-numeric amount, or a field missing.
WriteBodies ==
    {[GoodBody EXCEPT !.given = @ \cup {"image", "sampleLocation"},
                      !.name = <<Space, "b">>, !.image = <<"i">>,
                      !.sampleLocation = <<"s", Space>>],
     BadBody,
     [GoodBody EXCEPT !.price = <<"x">>],
     [GoodBody EXCEPT !.billing = <<"-", "2">>],
     [GoodBody EXCEPT !.name = <<Space>>],
     [GoodBody EXCEPT !.name = LongName(ProductNameMax)],
     [GoodBody EXCEPT !.given = @ \ {"qty"}, !.qty = <<>>]}

\* Bodies of PUT /api/products/:id: partial updates, the empty body, a body
\* that carries a subCategoryId, and bodies the validators reject.
UpdateBodies ==
    {NoBody,
     [NoBody EXCEPT !.given = {"qty"}, !.qty = <<"2">>],
     [NoBody EXCEPT !.given = {"price", "billing"}, !.price = <<"2">>,
                    !.billing = <<"3">>],
     [NoBody EXCEPT !.given = {"name", "ghodaLocation", "subCategoryId"},
                    !.name = <<"b", Space>>, !.ghodaLocation = <<"g">>,
                    !.subCategoryId = 2],
     [NoBody EXCEPT !.given = {"qty"}, !.qty = <<"-", "1">>],
     [NoBody EXCEPT !.given = {"price"}, !.price = <<"x">>],
     [NoBody EXCEPT !.given = {"billing"}, !.billing = <<>>],
     [NoBody EXCEPT !.given = {"name"}, !.name = <<>>],
     [NoBody EXCEPT !.given = {"name"}, !.name = LongName(ProductNameMax)]}

(***************************************************************************)
(* SpecWrites: one request at a time on a seeded store; Products are       *)
(* created, updated and read, and Categories and SubCategories are         *)
(* created and renamed under names the validators reject.                  *)
(***************************************************************************)
NextWrites ==
    \/ \E p \in {1} :
          \/ \E b \in WriteBodies, sc \in {0, 1} :
                /\ allocated.product < MaxWritten
                /\ ProductCreateBegin(p, "valid", b, sc)
          \/ \E b \in UpdateBodies, id \in KnownIds(allocated.product) :
                ProductUpdateBegin(p, "valid", id, b)
          \/ \E id \in KnownIds(allocated.product) :
                ProductGetRequest(p, "valid", id)
          \/ ProductListBegin(p, "valid", NoQuery)
          \/ ProductSearchBegin(p, "valid", NoQuery)
          \/ \E raw \in BadNames(CategoryNameMax) :
                CategoryCreateBegin(p, "valid", raw)
          \/ \E raw \in BadNames(CategoryNameMax) :
                CategoryRenameBegin(p, "valid", 1, raw)
          \/ \E raw \in BadNames(SubCategoryNameMax) :
                SubCategoryCreateBegin(p, "valid", raw, 1)
          \/ \E raw \in BadNames(SubCategoryNameMax) :
                SubCategoryRenameBegin(p, "valid", 1, raw)
          \/ ProductCreateInsert(p)
          \/ ProductCreatePopulate(p)
          \/ ProductUpdateWrite(p)
          \/ ProductListFind(p)
          \/ ProductSearchFind(p)
    \/ Tick
    \/ Read

SpecWrites == InitSeeded /\ [][NextWrites]_vars

\* Bodies of the Products that are listed: they differ in name and qty.
ListedBodies ==
    {[GoodBody EXCEPT !.qty = <<"0">>],
     [GoodBody EXCEPT !.name = <<"b">>, !.qty = <<"2">>]}

\* Queries with a lower bound, an upper bound, both or neither, each equal
\* to the qty of a Product, with and without a search text.
QtyQueries ==
    {[NoQuery EXCEPT !.given = g \cup t, !.qtyMin = <<"2">>, !.qtyMax = <<"0">>,
                     !.search = IF t = {} THEN <<>> ELSE <<"A">>] :
        g \in SUBSET {"qtyMin", "qtyMax"}, t \in {{}, {"search"}}}

\* Queries scoped to a SubCategory, to a Category, or to both.
ScopeQueries ==
    {[NoQuery EXCEPT !.given = {"subCategoryId"}, !.subCategoryId = sc] :
        sc \in {0, 1, 3}}
    \cup {[NoQuery EXCEPT !.given = {"categoryId"}, !.categoryId = c] :
            c \in {1, 2, 3}}
    \cup {[NoQuery EXCEPT !.given = {"categoryId", "subCategoryId"},
                          !.categoryId = 2, !.subCategoryId = 1],
          [NoQuery EXCEPT !.given = {"categoryId", "qtyMin"},
                          !.categoryId = 1, !.qtyMin = <<"2">>]}

\* Queries with a page and a limit.
PageQueries ==
    {[NoQuery EXCEPT !.given = g, !.page = pg, !.limit = <<"1">>] :
        g \in {{"limit"}, {"page", "limit"}}, pg \in {<<"1">>, <<"2">>, <<"3">>}}
    \cup {[NoQuery EXCEPT !.given = {"page"}, !.page = <<"2">>],
          [NoQuery EXCEPT !.given = {"page", "limit"}, !.page = <<"0">>,
                          !.limit = <<"2">>],
          [NoQuery EXCEPT !.given = {"page", "limit"}, !.page = <<"2">>,
                          !.limit = <<"2">>]}

(***************************************************************************)
(* SpecQuery: one request at a time on a seeded store; Products are        *)
(* created under the SubCategories of two Categories, and are listed and   *)
(* searched.                                                               *)
(***************************************************************************)
NextQuery ==
    \/ \E p \in {1} :
          \/ \E b \in ListedBodies, sc \in {1, 3} :
                /\ allocated.product < MaxProducts
                /\ ProductCreateBegin(p, "valid", b, sc)
          \/ \E q \in QtyQueries \cup ScopeQueries \cup PageQueries :
                ProductListBegin(p, "valid", q)
          \/ \E q \in QtyQueries \cup PageQueries :
                ProductSearchBegin(p, "valid", q)
          \/ ProductCreateInsert(p)
          \/ ProductCreatePopulate(p)
          \/ ProductListFind(p)
          \/ ProductSearchFind(p)
    \/ Tick
    \/ Read

SpecQuery == InitSeeded /\ [][NextQuery]_vars

\* Queries of the Category and SubCategory lists: none, a search text, a
\* categoryId.
NameQueries ==
    {NoQuery,
     [NoQuery EXCEPT !.given = {"search"}, !.search = <<"A">>],
     [NoQuery EXCEPT !.given = {"categoryId"}, !.categoryId = 1]}

(***************************************************************************)
(* SpecCounts: one request at a time on a seeded store; SubCategories and  *)
(* Products are created and deleted, Categories are deleted with what they *)
(* hold, and Categories and SubCategories are fetched and listed.          *)
(***************************************************************************)
NextCounts ==
    \/ \E p \in {1} :
          \/ \E c \in {1, 2} :
                /\ allocated.subCategory < allocated.seeded - 3 + MaxWritten
                /\ SubCategoryCreateBegin(p, "valid", <<"b">>, c)
          \/ \E sc \in {1, 3} :
                /\ allocated.product < MaxProducts
                /\ ProductCreateBegin(p, "valid", GoodBody, sc)
          \/ \E id \in {1, 2} : CategoryDeleteBegin(p, "valid", id)
          \/ \E id \in {1, 3} : SubCategoryDeleteBegin(p, "valid", id)
          \/ \E id \in {1} : ProductDeleteBegin(p, "valid", id)
          \/ \E q \in NameQueries \ {[NoQuery EXCEPT !.given = {"categoryId"},
                                                    !.categoryId = 1]} :
                CategoryListRequest(p, "valid", q)
          \/ \E id \in {1, 2} : CategoryGetRequest(p, "valid", id)
          \/ \E q \in NameQueries : SubCategoryListRequest(p, "valid", q)
          \/ \E id \in {1, 3} : SubCategoryGetRequest(p, "valid", id)
          \/ CategoryDeleteListSubs(p)
          \/ CategoryDeleteProducts(p)
          \/ CategoryDeleteSubs(p)
          \/ CategoryDeleteSelf(p)
          \/ SubCategoryCreateInsert(p)
          \/ SubCategoryCreatePopulate(p)
          \/ SubCategoryDeleteProducts(p)
          \/ SubCategoryDeleteSelf(p)
          \/ ProductCreateInsert(p)
          \/ ProductCreatePopulate(p)
          \/ ProductDeleteSelf(p)
    \/ Read

SpecCounts == InitSeeded /\ [][NextCounts]_vars

\* Names of a create or rename: one that is free, one that a seeded document
\* has, and one the validators reject.
AuthNames == {<<"a", "b">>, <<"a">>, <<>>}

\* Ids of a get, update or delete: one that names no document and one that
\* names a seeded or created document.
AuthIds == {0, 1}

(***************************************************************************)
(* SpecAuth: one request at a time on a seeded store; every route of the   *)
(* three routers is requested with and without a valid token.              *)
(***************************************************************************)
NextAuth ==
    \/ \E p \in {1}, tok \in Tokens :
          \/ \E q \in {NoQuery} : CategoryListRequest(p, tok, q)
          \/ \E id \in AuthIds : CategoryGetRequest(p, tok, id)
          \/ \E raw \in AuthNames :
                /\ Docs < MaxWritten
                /\ CategoryCreateBegin(p, tok, raw)
          \/ \E id \in AuthIds, raw \in AuthNames : CategoryRenameBegin(p, tok, id, raw)
          \/ \E id \in AuthIds : CategoryDeleteBegin(p, tok, id)
          \/ \E q \in {NoQuery} : SubCategoryListRequest(p, tok, q)
          \/ \E id \in AuthIds : SubCategoryGetRequest(p, tok, id)
          \/ \E raw \in AuthNames, c \in AuthIds :
                /\ Docs < MaxWritten
                /\ SubCategoryCreateBegin(p, tok, raw, c)
          \/ \E id \in AuthIds, raw \in AuthNames :
                SubCategoryRenameBegin(p, tok, id, raw)
          \/ \E id \in AuthIds : SubCategoryDeleteBegin(p, tok, id)
          \/ \E q \in {NoQuery} : ProductListBegin(p, tok, q)
          \/ \E q \in {NoQuery} : ProductSearchBegin(p, tok, q)
          \/ \E id \in AuthIds : ProductGetRequest(p, tok, id)
          \/ \E b \in {GoodBody, BadBody}, sc \in AuthIds :
                /\ Docs < MaxWritten
                /\ ProductCreateBegin(p, tok, b, sc)
          \/ \E id \in AuthIds, b \in {GoodBody, BadBody} :
                ProductUpdateBegin(p, tok, id, b)
          \/ \E id \in AuthIds : ProductDeleteBegin(p, tok, id)
    \/ \E p \in {1} :
          \/ CategorySteps(p)
          \/ SubCategorySteps(p)
          \/ ProductSteps(p)
          \/ ProductUpdateWrite(p)
          \/ ProductListFind(p)
          \/ ProductSearchFind(p)
    \/ Tick
    \/ Read

SpecAuth == InitSeeded /\ [][NextAuth]_vars

\* Search texts: none, an empty one, letters in the other case, and texts
\* with characters that are special in a regular expression.
SearchTexts == {<<"A">>, <<"B">>, <<Wildcard>>, <<"a", Quantifier>>, <<Quantifier>>}

SearchQueries ==
    {NoQuery, [NoQuery EXCEPT !.given = {"search"}]}
    \cup {[NoQuery EXCEPT !.given = {"search"}, !.search = s] : s \in SearchTexts}

(***************************************************************************)
(* SpecSearch: one request at a time on a seeded store; Products are       *)
(* created, and Categories, SubCategories and Products are listed and      *)
(* searched by name.                                                       *)
(***************************************************************************)
NextSearch ==
    \/ \E p \in {1} :
          \/ \E b \in ListedBodies :
                /\ allocated.product < MaxProducts
                /\ ProductCreateBegin(p, "valid", b, 1)
          \/ \E q \in SearchQueries : CategoryListRequest(p, "valid", q)
          \/ \E q \in SearchQueries : SubCategoryListRequest(p, "valid", q)
          \/ \E q \in SearchQueries : ProductListBegin(p, "valid", q)
          \/ \E q \in SearchQueries : ProductSearchBegin(p, "valid", q)
          \/ ProductCreateInsert(p)
          \/ ProductCreatePopulate(p)
          \/ ProductListFind(p)
          \/ ProductSearchFind(p)
    \/ Read

SpecSearch == InitSeeded /\ [][NextSearch]_vars

(***************************************************************************)
(* SpecGate: logins and verifications one at a time, while seconds pass    *)
(* one by one and in leaps of one second less than a token's life.         *)
(***************************************************************************)
NextGate ==
    \/ \E p \in {1} :
          \/ \E named \in BOOLEAN, found \in BOOLEAN : LoginBegin(p, named, found)
          \/ LoginMatch(p)
          \/ \E token \in Sendable : VerifyRequest(p, token)
    \/ /\ seconds % (ExpiresIn - 1) < MaxTicks
       /\ Elapse(1)
    \/ /\ seconds \div (ExpiresIn - 1) < MaxLeaps
       /\ Elapse(ExpiresIn - 1)
    \/ Read

SpecGate == Init /\ [][NextGate]_vars

(***************************************************************************)
(* SpecCascade: one request at a time on a seeded store; Products are      *)
(* created, and Categories and SubCategories are deleted with what they    *)
(* hold, each store call of a delete failing or not.                       *)
(***************************************************************************)
NextCascade ==
    \/ \E p \in {1} :
          \/ \E sc \in {1, 3} :
                /\ allocated.product < MaxProducts
                /\ ProductCreateBegin(p, "valid", GoodBody, sc)
          \/ \E id \in {1, 2} : CategoryDeleteBegin(p, "valid", id)
          \/ \E id \in {1, 2} : SubCategoryDeleteBegin(p, "valid", id)
          \/ ProductCreateInsert(p)
          \/ ProductCreatePopulate(p)
          \/ CategoryDeleteListSubs(p)
          \/ CategoryDeleteProducts(p)
          \/ CategoryDeleteSubs(p)
          \/ CategoryDeleteSelf(p)
          \/ SubCategoryDeleteProducts(p)
          \/ SubCategoryDeleteSelf(p)
    \/ Read

SpecCascade == InitSeeded /\ [][NextCascade]_vars

(***************************************************************************)
(* SpecPasscode: a user opens SubCategoryModal, asks for the deletion,     *)
(* types passcodes, submits and closes, while onDelete resolves or rejects.*)
(***************************************************************************)
NextPasscode ==
    \/ \E subCategory \in {0, 1} : ModalOpen(subCategory)
    \/ ModalClickDelete
    \/ \E text \in Typed : PasscodeType(text)
    \/ PasscodeSubmit
    \/ PasscodeConfirmed
    \/ PasscodeFailed
    \/ PasscodeClose
    \/ ModalClose

SpecPasscode == Init /\ [][NextPasscode]_vars

(***************************************************************************)
(* SpecDebounce: a user types into the search box of a Dashboard over the  *)
(* seeded store, while timers fire and responses arrive in any order.      *)
(***************************************************************************)
NextDebounce ==
    \/ \E text \in TypedSearches : DashboardSearchChange(text)
    \/ DashboardSearchTimer
    \/ \E s \in dashboard.inflight : DashboardSearchDone(s)
    \/ \E s \in dashboard.inflight : DashboardSearchFailed(s)

SpecDebounce == InitSeeded /\ [][NextDebounce]_vars

(***************************************************************************)
(* SpecLoadMore: a user of SubCategoryView over a store of four Products   *)
(* activates Load More, while the timer fires and responses arrive.        *)
(* SpecFilters: the user changes the filters as well.                      *)
(***************************************************************************)
NextLoadMore ==
    \/ ViewTimer
    \/ ViewLoadMore
    \/ \E s \in view.inflight : ViewFetched(s)
    \/ \E s \in view.inflight : ViewFetchFailed(s)

SpecLoadMore == InitListed /\ [][NextLoadMore]_vars

NextFilters ==
    \/ \E f \in Filters : view.sent < MaxFetches /\ ViewFilterChange(f)
    \/ NextLoadMore

SpecFilters == InitListed /\ [][NextFilters]_vars

(***************************************************************************)
(* SpecSeq: one request at a time, each run to its response before the     *)
(* next comes in.                                                          *)
(***************************************************************************)
NextSeq ==
    \E p \in {1} :
        \/ CategoryRequests(p, Tokens, PlainNames)
        \/ SubCategoryRequests(p, Tokens, PlainNames)
        \/ ProductRequests(p, Tokens, {GoodBody, BadBody})
        \/ CategorySteps(p)
        \/ SubCategorySteps(p)
        \/ ProductSteps(p)
        \/ Read

SpecSeq == Init /\ [][NextSeq]_vars

(***************************************************************************)
(* SpecNames: one request at a time, creating and renaming Categories and  *)
(* SubCategories under awkward names.                                      *)
(***************************************************************************)
NextNames ==
    \E p \in {1} :
        \/ \E raw \in AwkwardNames : CategoryCreateBegin(p, "valid", raw)
        \/ \E raw \in AwkwardNames, id \in KnownIds(allocated.category) :
              CategoryRenameBegin(p, "valid", id, raw)
        \/ \E raw \in AwkwardNames, c \in KnownIds(allocated.category) :
              SubCategoryCreateBegin(p, "valid", raw, c)
        \/ \E raw \in AwkwardNames, id \in KnownIds(allocated.subCategory) :
              SubCategoryRenameBegin(p, "valid", id, raw)
        \/ CategoryCreateInsert(p)
        \/ CategoryRenameWrite(p)
        \/ SubCategoryCreateInsert(p)
        \/ SubCategoryCreatePopulate(p)
        \/ SubCategoryRenameCheck(p)
        \/ SubCategoryRenameWrite(p)
        \/ Read

SpecNames == Init /\ [][NextNames]_vars

(***************************************************************************)
(* Spec: two requests in flight.  The first slot serves any request; the   *)
(* second serves the creates of a second client.                           *)
(***************************************************************************)
RaceNames == {<<"a">>}

Next ==
    \/ \E p \in {1} :
          \/ CategoryRequests(p, {"valid"}, RaceNames)
          \/ SubCategoryRequests(p, {"valid"}, RaceNames)
          \/ ProductRequests(p, {"valid"}, {GoodBody})
    \/ \E p \in {2} :
          \/ \E raw \in RaceNames : CategoryCreateBegin(p, "valid", raw)
          \/ \E raw \in RaceNames, c \in KnownIds(allocated.category) :
                SubCategoryCreateBegin(p, "valid", raw, c)
          \/ \E sc \in KnownIds(allocated.subCategory) :
                ProductCreateBegin(p, "valid", GoodBody, sc)
    \/ \E p \in Procs :
          \/ CategorySteps(p)
          \/ SubCategorySteps(p)
          \/ ProductSteps(p)
    \/ Read

Spec == Init /\ [][Next]_vars

(***************************************************************************)
(* Properties.                                                             *)
(***************************************************************************)
Quiet == \A p \in Procs : ~Running(p)

\* The state in which DELETE /api/categories/:id has answered 200: the
\* Category and the SubCategories it had are not found, no SubCategory carries
\* its id and no Product refers to one of those SubCategories.
C1_AfterCategoryDelete ==
    (resp.op = "deleteCategory" /\ resp.status = 200) =>
        /\ CategoryGet(resp.id) = 404
        /\ \A s \in DOMAIN subCategories : subCategories[s].categoryId # resp.id
        /\ \A s \in resp.kids : SubCategoryGet(s) = 404
        /\ \A i \in DOMAIN products : products[i].subCategoryId \notin resp.kids

\* The steps of DELETE /api/categories/:id: the Product deletion leaves a get
\* of every Product of the Category's SubCategories at 404, and no step adds
\* a SubCategory or a Product.
C1_CategoryDeleteStep(p) ==
    /\ DOMAIN subCategories' \subseteq DOMAIN subCategories
    /\ DOMAIN products' \subseteq DOMAIN products
    /\ (req[p].pc = "deleteProducts" /\ req'[p].pc = "deleteSubs") =>
          \A i \in DOMAIN products :
              products[i].subCategoryId \in req[p].kids => ProductGet(i)' = 404
    /\ req[p].pc \in {"deleteSubs", "deleteSelf"} =>
          \A i \in DOMAIN products : products[i].subCategoryId \notin req[p].kids

\* C1 (SpecSeq): once DELETE /api/categories/:id has answered 200, no
\* SubCategory carries that categoryId and no Product refers to one of the
\* SubCategories the Category had, so a get of the Category, of one of those
\* SubCategories or of one of their Products by its former id answers 404.
C1_CategoryDeleteLeavesNoDescendant ==
    /\ []C1_AfterCategoryDelete
    /\ [][\A p \in Procs :
            (req[p].op = "deleteCategory" /\ Running(p)) =>
                C1_CategoryDeleteStep(p)]_vars

\* A Category with SubCategories was deleted after Products had been
\* created: none is left.
C1_Witness ==
    /\ resp.op = "deleteCategory"
    /\ resp.status = 200
    /\ resp.kids # {}
    /\ allocated.product > 0
    /\ products = <<>>

\* Every step of DELETE /api/subcategories/:id leaves the
\* Categories, the other SubCategories and the Products of the other
\* SubCategories as they were and adds nothing; once it has answered 200
\* the SubCategory and every Product with its subCategoryId are gone.
C2_SubCategoryDeleteStep(p) ==
    LET id == req[p].id
    IN /\ categories' = categories
       /\ DOMAIN subCategories' \subseteq DOMAIN subCategories
       /\ DOMAIN products' \subseteq DOMAIN products
       /\ \A s \in DOMAIN subCategories \ {id} :
             s \in DOMAIN subCategories' /\ subCategories'[s] = subCategories[s]
       /\ \A i \in DOMAIN products :
             products[i].subCategoryId # id =>
                i \in DOMAIN products' /\ products'[i] = products[i]
       /\ (req'[p].pc = "idle" /\ resp'.status = 200) =>
             /\ id \notin DOMAIN subCategories'
             /\ \A i \in DOMAIN products' : products'[i].subCategoryId # id

\* C2 (SpecSeq): DELETE /api/subcategories/:id removes the SubCategory and
\* the Products with its subCategoryId, and nothing else.
C2_SubCategoryDeleteRemovesOnlyItsOwn ==
    [][\A p \in Procs :
          (req[p].op = "deleteSubCategory" /\ Running(p)) =>
              C2_SubCategoryDeleteStep(p)]_vars

\* A SubCategory was deleted while a Product of another SubCategory exists.
C2_Witness ==
    /\ resp.op = "deleteSubCategory"
    /\ resp.status = 200
    /\ resp.id \notin DOMAIN subCategories
    /\ \E i \in DOMAIN products : products[i].subCategoryId \in DOMAIN subCategories

\* C3 (Spec): once every request in flight has answered, every Product
\* refers to a SubCategory that exists.
C3_NoOrphanProductOnceQuiet ==
    Quiet => \A i \in DOMAIN products :
                products[i].subCategoryId \in DOMAIN subCategories

\* C4 (SpecSeq): a DELETE /api/categories/:id that failed after the Product
\* deletion or after the SubCategory deletion leaves no SubCategory of the
\* Category and no Product under one.
C4_FailedDeleteLeavesNoChildren ==
    (/\ resp.op = "deleteCategory"
     /\ resp.status = 500
     /\ resp.at \in {"deleteSubs", "deleteSelf"}) =>
        /\ \A s \in DOMAIN subCategories : subCategories[s].categoryId # resp.id
        /\ \A i \in DOMAIN products : products[i].subCategoryId \notin resp.kids

\* C5 (SpecSeq): an authorized, valid POST /api/subcategories whose
\* categoryId names no Category answers 404 and creates no SubCategory.
C5_SubCategoryNeedsCategory ==
    (/\ resp.op = "createSubCategory"
     /\ resp.err \notin {"unauthorized", "validation", "store"}
     /\ resp.parent \notin DOMAIN categories) =>
        /\ resp.status = 404
        /\ resp.id \notin DOMAIN subCategories

\* C6 (SpecSeq): a POST /api/products whose subCategoryId names no
\* SubCategory goes no further than the existence check, is answered with
\* an error and leaves the Products as they were; so every Product that
\* appears refers to a SubCategory that exists.
C6_ProductNeedsSubCategory ==
    [][/\ \A p \in Procs :
            (req[p].pc = "idle" /\ req'[p].op = "createProduct") =>
                req'[p].parent \in DOMAIN subCategories
       /\ (/\ resp = Idle
           /\ resp'.op = "createProduct"
           /\ resp'.parent \notin DOMAIN subCategories) =>
              /\ resp'.status \in {400, 401, 500}
              /\ resp'.id \notin DOMAIN products'
              /\ products' = products
       /\ \A i \in DOMAIN products' \ DOMAIN products :
            products'[i].subCategoryId \in DOMAIN subCategories]_vars

\* An authorized, valid create of a Product under a SubCategory that does
\* not exist was answered 400.
C6_Witness ==
    /\ resp.op = "createProduct"
    /\ resp.err = "notfound"
    /\ resp.status = 400
    /\ resp.parent \notin DOMAIN subCategories

\* C7 (SpecNames): a POST /api/categories whose name equals, ignoring case,
\* the name of another Category answers 400 "already exists" and creates
\* nothing.
C7_DuplicateCategoryIsConflict ==
    (/\ resp.op = "createCategory"
     /\ resp.err # "store"
     /\ \E i \in DOMAIN categories \ {resp.id} :
           SameNameIgnoringCase(categories[i].name, resp.name)) =>
        /\ resp.status = 400
        /\ resp.err = "exists"
        /\ resp.id \notin DOMAIN categories

\* C8 (SpecNames): no two Categories have names equal ignoring case, and no
\* two SubCategories of one Category have names equal ignoring case.
C8_NamesUniqueIgnoringCase ==
    /\ \A i, j \in DOMAIN categories :
          i # j => ~SameNameIgnoringCase(categories[i].name, categories[j].name)
    /\ \A i, j \in DOMAIN subCategories :
          (i # j /\ subCategories[i].categoryId = subCategories[j].categoryId) =>
              ~SameNameIgnoringCase(subCategories[i].name, subCategories[j].name)

\* A create that passed the duplicate check and reaches its
\* insert when a record of the same name (and, for a SubCategory, the same
\* categoryId) exists writes nothing and answers 500; so no two Categories
\* have the same name and no two SubCategories of a Category have.
C9_NoTwoOfOneName ==
    /\ \A i, j \in DOMAIN categories :
          i # j => categories[i].name # categories[j].name
    /\ \A i, j \in DOMAIN subCategories :
          (i # j /\ subCategories[i].categoryId = subCategories[j].categoryId) =>
              subCategories[i].name # subCategories[j].name

C9_LoserStep(p) ==
    /\ (/\ req[p].op = "createCategory"
        /\ \E i \in DOMAIN categories : categories[i].name = req[p].name) =>
           /\ categories' = categories
           /\ req'[p].pc = "idle"
           /\ resp'.status = 500
    /\ (/\ req[p].op = "createSubCategory"
        /\ \E i \in DOMAIN subCategories :
              /\ subCategories[i].name = req[p].name
              /\ subCategories[i].categoryId = req[p].parent) =>
           /\ subCategories' = subCategories
           /\ req'[p].pc = "idle"
           /\ resp'.status = 500

\* C9 (Spec): of two creates of one name that both passed the duplicate
\* check, the second insert is rejected by the unique index and answered 500,
\* and at most one record of the name exists.
C9_IndexRejectsSecondWrite ==
    [][/\ C9_NoTwoOfOneName'
       /\ \A p \in Procs :
            (req[p].pc = "insert" /\ req'[p] # req[p]) => C9_LoserStep(p)]_vars

\* Two creates of one name both passed the duplicate check; the second
\* insert was rejected by the index.
C9_Witness ==
    /\ resp.op \in {"createCategory", "createSubCategory"}
    /\ resp.err = "duplicate"
    /\ resp.status = 500

\* C10 (SpecNames): a POST /api/subcategories whose name exists under
\* another Category, and under its own Category equals no name ignoring
\* case, answers 201.
C10_NameFreeInOwnCategory ==
    (/\ resp.op = "createSubCategory"
     /\ resp.err # "store"
     /\ \E j \in DOMAIN subCategories :
           /\ subCategories[j].categoryId # resp.parent
           /\ subCategories[j].name = resp.name
     /\ \A i \in DOMAIN subCategories \ {resp.id} :
           subCategories[i].categoryId = resp.parent =>
              ~SameNameIgnoringCase(subCategories[i].name, resp.name)) =>
        resp.status = 201


ProductReads == {"getProduct", "listProducts", "searchProducts"}
ProductWrites == {"createProduct", "updateProduct"}

\* The step on which a request is answered with success.
Answered(op) ==
    /\ resp = Idle
    /\ resp'.op = op
    /\ resp'.status \in {200, 201}
    /\ resp'.err = "none"

\* C12 (SpecWrites): every Product a get, list, search, create or update
\* response shows carries rakam = billing * price of the values stored for
\* it, and the response of an update that carries price or billing shows the
\* rakam of the new values.
C12_RakamIsBillingTimesPrice ==
    (resp.op \in ProductReads \cup ProductWrites /\ resp.status \in {200, 201}) =>
        /\ \A i \in DOMAIN resp.out :
              LET v == resp.out[i]
              IN /\ v.id \in DOMAIN products
                 /\ v.doc = products[v.id]
                 /\ v.rakam = products[v.id].billing * products[v.id].price
        /\ (resp.op = "updateProduct" /\ resp.err = "none") =>
              LET v == resp.out[1]
              IN /\ "price" \in resp.body.given => v.doc.price = Number(resp.body.price)
                 /\ "billing" \in resp.body.given =>
                       v.doc.billing = Number(resp.body.billing)
                 /\ v.rakam = v.doc.billing * v.doc.price

\* An update changed price and billing and its response shows the new rakam.
C12_Witness ==
    /\ resp.op = "updateProduct"
    /\ resp.status = 200
    /\ resp.err = "none"
    /\ {"price", "billing"} \subseteq resp.body.given
    /\ resp.out[1].rakam = 6

\* C13 (SpecWrites): a Product is inserted with updatedAt at the time of the
\* insert, a successful update (of all, some or no fields) sets updatedAt to
\* the time of the write, nothing but an update of the Product changes its
\* updatedAt, and no step of a get, list or search changes a Product.
C13_UpdatedAtFollowsWrites ==
    [][/\ \A i \in DOMAIN products' \ DOMAIN products :
             products'[i].updatedAt = now /\ products'[i].createdAt = now
       /\ Answered("updateProduct") => products'[resp'.id].updatedAt = now
       /\ \A i \in DOMAIN products \cap DOMAIN products' :
             products'[i].updatedAt # products[i].updatedAt =>
                \E p \in Procs : /\ req[p].op = "updateProduct"
                                 /\ req[p].pc = "write"
                                 /\ req[p].id = i
       /\ (\/ \E p \in Procs : req[p].op \in ProductReads \/ req'[p].op \in ProductReads
           \/ (resp' # resp /\ resp'.op \in ProductReads)) =>
             products' = products]_vars

\* A partial update was written later than the Product was created, and a
\* list read after it left the Product as the update wrote it.
C13_Witness ==
    /\ resp.op = "listProducts"
    /\ resp.status = 200
    /\ \E i \in DOMAIN resp.out :
          /\ resp.out[i].doc.updatedAt > resp.out[i].doc.createdAt
          /\ resp.out[i].doc.updatedAt < now
          /\ resp.out[i].doc = products[resp.out[i].id]

\* What the body b of an update supplies for a field of a Product.
C14_Supplied(b, field) ==
    CASE field = "name" -> Trim(b.name)
      [] field = "qty" -> Number(b.qty)
      [] field = "price" -> Number(b.price)
      [] field = "billing" -> Number(b.billing)
      [] field = "image" -> b.image
      [] field = "sampleLocation" -> Trim(b.sampleLocation)
      [] field = "ghodaLocation" -> Trim(b.ghodaLocation)

\* C14 (SpecWrites): a successful PUT /api/products/:id leaves in the Product
\* the supplied value of every field the body carries among name, qty,
\* price, billing, image, sampleLocation and ghodaLocation, the stored value
\* of every field it does not carry, and the stored subCategoryId and
\* createdAt, whether or not the body carries a subCategoryId; it changes no
\* other Product.
C14_UpdateChangesSuppliedFieldsOnly ==
    [][Answered("updateProduct") =>
          LET id == resp'.id
              b == resp'.body
          IN /\ DOMAIN products' = DOMAIN products
             /\ \A i \in DOMAIN products \ {id} : products'[i] = products[i]
             /\ \A field \in {"name", "qty", "price", "billing", "image",
                              "sampleLocation", "ghodaLocation"} :
                   products'[id][field] =
                       IF field \in b.given THEN C14_Supplied(b, field)
                       ELSE products[id][field]
             /\ products'[id].subCategoryId = products[id].subCategoryId
             /\ products'[id].createdAt = products[id].createdAt]_vars

\* An update whose body carries another subCategoryId and some fields, but
\* not all, was answered with the Product still under its SubCategory.
C14_Witness ==
    /\ resp.op = "updateProduct"
    /\ resp.status = 200
    /\ resp.err = "none"
    /\ {"subCategoryId", "name"} \subseteq resp.body.given
    /\ "qty" \notin resp.body.given
    /\ resp.body.subCategoryId # resp.out[1].doc.subCategoryId
    /\ resp.out[1].doc.image # <<>>

C17_BadName(name, max) == name = <<>> \/ Len(name) > max

C17_BadAmount(s) == ~IsNumeric(s) \/ Number(s) < 0

\* The request r is one the validation must reject.
C17_Invalid(r) ==
    \/ r.op \in {"createCategory", "updateCategory"}
          /\ C17_BadName(r.name, CategoryNameMax)
    \/ r.op \in {"createSubCategory", "updateSubCategory"}
          /\ C17_BadName(r.name, SubCategoryNameMax)
    \/ r.op = "createProduct"
          /\ (\/ C17_BadName(r.body.name, ProductNameMax)
              \/ C17_BadAmount(r.body.qty)
              \/ C17_BadAmount(r.body.price)
              \/ C17_BadAmount(r.body.billing))
    \/ r.op = "updateProduct"
          /\ (\/ "name" \in r.body.given /\ C17_BadName(r.body.name, ProductNameMax)
              \/ "qty" \in r.body.given /\ C17_BadAmount(r.body.qty)
              \/ "price" \in r.body.given /\ C17_BadAmount(r.body.price)
              \/ "billing" \in r.body.given /\ C17_BadAmount(r.body.billing))

C17_Rejected ==
    (resp.tok = "valid" /\ C17_Invalid(resp)) =>
        resp.status = 400 /\ resp.err = "validation" /\ resp.at = "find"

C17_AmountsNotNegative ==
    \A i \in DOMAIN products :
        products[i].qty >= 0 /\ products[i].price >= 0 /\ products[i].billing >= 0

\* C17 (SpecWrites): an authorized create or update with an empty or
\* over-long name or with a negative or non-numeric qty, price or billing is
\* answered 400 by the validators before any store call and writes nothing;
\* every stored Product has qty, price and billing >= 0.
C17_InvalidInputIsRejectedUnwritten ==
    /\ []C17_Rejected
    /\ []C17_AmountsNotNegative
    /\ [][(resp' # resp /\ resp'.tok = "valid" /\ C17_Invalid(resp')) =>
             /\ categories' = categories
             /\ subCategories' = subCategories
             /\ products' = products]_vars

\* An update with a negative qty was answered 400 and the Product it names
\* is stored with its amounts.
C17_Witness ==
    /\ resp.op = "updateProduct"
    /\ resp.status = 400
    /\ "qty" \in resp.body.given
    /\ IsNumeric(resp.body.qty)
    /\ Number(resp.body.qty) < 0
    /\ resp.id \in DOMAIN products
    /\ products[resp.id].qty > 0

ProductLists == {"listProducts", "searchProducts"}

\* The ids of the Products a response shows.
IdsShown(r) == {r.out[i].id : i \in DOMAIN r.out}

\* The response r shows the whole result, not a page of it.
ShowsAll(r) == SkipOf(r.query) = 0 /\ LimitOf(r.query) >= r.total

\* The Products that match the filters of r other than the quantity range.
C18_OtherFilters(r) ==
    Matching([r.query EXCEPT !.given = @ \ {"qtyMin", "qtyMax"}], r.kids)

C18_InRange(q, id) ==
    /\ "qtyMin" \in q.given => Number(q.qtyMin) <= products[id].qty
    /\ "qtyMax" \in q.given => products[id].qty <= Number(q.qtyMax)

\* C18 (SpecQuery): a Product list or search with numeric qtyMin and/or
\* qtyMax counts exactly the Products that match the other filters and have
\* qtyMin <= qty <= qtyMax, each bound applying only when present; it shows
\* no Product outside that set, and shows all of it when the page holds the
\* whole result.
C18_QuantityRangeIsInclusiveAndExact ==
    (resp.op \in ProductLists /\ resp.status = 200) =>
        LET expected == {id \in C18_OtherFilters(resp) : C18_InRange(resp.query, id)}
        IN /\ resp.total = Cardinality(expected)
           /\ IdsShown(resp) \subseteq expected
           /\ ShowsAll(resp) => IdsShown(resp) = expected

\* A list with a lower bound showed the Product whose qty equals the bound
\* and left out the one below it.
C18_Witness ==
    /\ resp.op = "listProducts"
    /\ resp.status = 200
    /\ resp.query.given = {"qtyMin"}
    /\ resp.total = 1
    /\ resp.out[1].doc.qty = Number(resp.query.qtyMin)
    /\ \E id \in DOMAIN products : products[id].qty < Number(resp.query.qtyMin)

\* The Products whose SubCategory belongs to Category c.
C19_Under(c) ==
    {id \in DOMAIN products :
        /\ products[id].subCategoryId \in DOMAIN subCategories
        /\ subCategories[products[id].subCategoryId].categoryId = c}

\* The Products that match the filters of r other than the scope.
C19_OtherFilters(r) ==
    Matching([r.query EXCEPT !.given = @ \ {"categoryId", "subCategoryId"}], {})

\* C19 (SpecQuery): a Product list with a categoryId and no subCategoryId
\* counts and shows exactly the Products whose SubCategory belongs to that
\* Category and that match the text and quantity filters, none for a Category
\* without SubCategories; with a subCategoryId as well it counts and shows
\* the Products of that SubCategory only.
C19_CategoryScopeResolvesSubCategories ==
    (/\ resp.op = "listProducts"
     /\ resp.status = 200
     /\ "categoryId" \in resp.query.given) =>
        LET q == resp.query
            scope == IF "subCategoryId" \in q.given
                     THEN {id \in DOMAIN products :
                              products[id].subCategoryId = q.subCategoryId}
                     ELSE C19_Under(q.categoryId)
            expected == scope \cap C19_OtherFilters(resp)
        IN /\ resp.total = Cardinality(expected)
           /\ IdsShown(resp) \subseteq expected
           /\ ShowsAll(resp) => IdsShown(resp) = expected
           /\ (SubCategoriesOf(q.categoryId) = {} /\ "subCategoryId" \notin q.given) =>
                 resp.total = 0 /\ resp.out = <<>>

\* A list scoped to a Category showed its Product and left out the Product
\* of another Category.
C19_Witness ==
    /\ resp.op = "listProducts"
    /\ resp.status = 200
    /\ resp.query.given = {"categoryId"}
    /\ resp.total = 1
    /\ Len(resp.out) = 1
    /\ C19_Under(resp.query.categoryId) # DOMAIN products

\* C20 (SpecQuery): a Product list with page >= 1 and limit >= 1 shows the
\* items (page-1)*limit+1 .. min(page*limit, total) of the unpaginated sorted
\* result, whichever order the store gives that result on another fetch, and
\* reports total = number of matching Products and pages = ceil(total/limit).
C20_PageIsWindowOfTheSortedResult ==
    (/\ resp.op = "listProducts"
     /\ resp.status = 200
     /\ PageOf(resp.query) >= 1
     /\ LimitOf(resp.query) >= 1) =>
        LET matching == Matching(resp.query, resp.kids)
        IN /\ resp.total = Cardinality(matching)
           /\ resp.pages = Ceil(resp.total, LimitOf(resp.query))
           /\ \A full \in SortedOrders(matching) :
                 [i \in DOMAIN resp.out |-> resp.out[i].id]
                     = Window(full, SkipOf(resp.query), LimitOf(resp.query))

\* The count and the page count of a list are those of the matching set.
C20_TotalsAreExact ==
    (/\ resp.op = "listProducts"
     /\ resp.status = 200
     /\ PageOf(resp.query) >= 1
     /\ LimitOf(resp.query) >= 1) =>
        /\ resp.total = Cardinality(Matching(resp.query, resp.kids))
        /\ resp.pages = Ceil(resp.total, LimitOf(resp.query))

CategoryReads == {"getCategory", "listCategories"}
SubCategoryReads == {"getSubCategory", "listSubCategories"}

\* C11 (SpecCounts): every Category a list or get returns carries a
\* subCategoriesCount equal to the number of SubCategories in the store whose
\* categoryId is that Category, and every SubCategory a list or get returns
\* carries a productsCount equal to the number of Products in the store whose
\* subCategoryId is that SubCategory, whatever creates, deletes and cascade
\* deletes came before.
C11_CountsEqualTheStore ==
    /\ (resp.op \in CategoryReads /\ resp.status = 200) =>
          \A i \in DOMAIN resp.out :
              /\ resp.out[i].id \in DOMAIN categories
              /\ resp.out[i].subCategoriesCount =
                    Cardinality({sc \in DOMAIN subCategories :
                                    subCategories[sc].categoryId = resp.out[i].id})
    /\ (resp.op \in SubCategoryReads /\ resp.status = 200) =>
          \A i \in DOMAIN resp.out :
              /\ resp.out[i].id \in DOMAIN subCategories
              /\ resp.out[i].productsCount =
                    Cardinality({x \in DOMAIN products :
                                    products[x].subCategoryId = resp.out[i].id})

\* A Category seeded with two SubCategories was fetched with a count of one,
\* after a SubCategory of it was deleted and Products had been created.
C11_Witness ==
    /\ resp.op = "getCategory"
    /\ resp.status = 200
    /\ resp.id = 1
    /\ resp.out[1].subCategoriesCount = 1
    /\ allocated.product > 0

\* A request without a valid token is answered at this step.
C15_Refused == resp = Idle /\ resp' # Idle /\ resp'.tok # "valid"

\* C15 (SpecAuth): every list, get, create, update and delete request on
\* Categories, SubCategories and Products that carries no valid token is
\* answered Unauthorized at its first step with the store unchanged, whatever
\* its name, body or id, so that it is never answered ValidationError,
\* NotFound or Conflict; no such request goes on to a store call.
C15_UnauthorizedComesFirst ==
    /\ [](\A p \in Procs : Running(p) => req[p].tok = "valid")
    /\ [](resp.tok \notin {"none", "valid"} =>
             resp.status = 401 /\ resp.err = "unauthorized")
    /\ [][C15_Refused =>
             /\ resp'.status = 401
             /\ categories' = categories
             /\ subCategories' = subCategories
             /\ products' = products
             /\ allocated' = allocated]_vars

\* A create without a valid token whose name a Category already has was
\* answered Unauthorized.
C15_Witness ==
    /\ resp.op = "createCategory"
    /\ resp.tok = "invalid"
    /\ resp.status = 401
    /\ CategoryNameTaken(resp.name, 0)

CategoryById == {"getCategory", "updateCategory", "deleteCategory"}
SubCategoryById == {"getSubCategory", "updateSubCategory", "deleteSubCategory"}
ProductById == {"getProduct", "updateProduct", "deleteProduct"}

\* Request r names an id that no document of its collection has.
C16_MissingId(r) ==
    \/ r.op \in CategoryById /\ r.id \notin DOMAIN categories
    \/ r.op \in SubCategoryById /\ r.id \notin DOMAIN subCategories
    \/ r.op \in ProductById /\ r.id \notin DOMAIN products

\* Create request r names a parent that does not exist.
C16_MissingParent(r) ==
    \/ r.op = "createSubCategory" /\ r.parent \notin DOMAIN categories
    \/ r.op = "createProduct" /\ r.parent \notin DOMAIN subCategories

\* An authorized request whose input passed the validators is answered at
\* this step, and not with a server error.
C16_Answered ==
    /\ resp = Idle
    /\ resp' # Idle
    /\ resp'.tok = "valid"
    /\ resp'.status # 500
    /\ resp'.err # "validation"

C16_NotFoundUnchanged ==
    /\ resp'.status = 404
    /\ categories' = categories
    /\ subCategories' = subCategories
    /\ products' = products

\* C16 (SpecAuth): a get, update or delete that names an id no Category,
\* SubCategory or Product has is answered NotFound (404) and leaves the store
\* unchanged, and so is a create that names a parent that does not exist.
C16_MissingIsNotFound ==
    [][(C16_Answered /\ (C16_MissingId(resp') \/ C16_MissingParent(resp')))
          => C16_NotFoundUnchanged]_vars

\* The part of C16 the handlers keep: a get or a delete of a missing id, and
\* an update of a missing SubCategory or Product, or of a missing Category
\* to a name no Category has, is answered NotFound with the store unchanged.
C16_MissingIdIsNotFoundButForTakenName ==
    [][(/\ C16_Answered
        /\ C16_MissingId(resp')
        /\ ~(resp'.op = "updateCategory" /\ resp'.err = "exists"))
          => C16_NotFoundUnchanged]_vars

\* C21 (SpecQuery): Products of equal updatedAt come in a list or search
\* result in the order they were inserted, so that the order of a result is
\* a function of the store contents.
C21_TiesKeepInsertionOrder ==
    (resp.op \in ProductLists /\ resp.status = 200) =>
        \A i, j \in DOMAIN resp.out :
            (i < j /\ resp.out[i].doc.updatedAt = resp.out[j].doc.updatedAt) =>
                resp.out[i].id < resp.out[j].id

\* The part of the order the sort fixes: no Product comes before one of a
\* later updatedAt.
C21_UpdatedAtNeverAscends ==
    (resp.op \in ProductLists /\ resp.status = 200) =>
        \A i, j \in DOMAIN resp.out :
            i < j => resp.out[i].doc.updatedAt >= resp.out[j].doc.updatedAt

\* The Product written last, where Products are created and never updated
\* or deleted.
C22_LastWritten == allocated.product

\* C22 (SpecQuery): after a Product is created, it is the first item of
\* page 1 of every list or search whose filters it matches, ahead of every
\* Product written earlier.
C22_LastWrittenComesFirst ==
    (/\ resp.op \in ProductLists
     /\ resp.status = 200
     /\ PageOf(resp.query) = 1
     /\ LimitOf(resp.query) >= 1
     /\ C22_LastWritten \in Matching(resp.query, resp.kids)) =>
        resp.out[1].id = C22_LastWritten

\* The part of C22 that holds for Categories and SubCategories: a list comes
\* in ascending order of name, compared by code unit.
C22_NamesAscend ==
    (resp.op \in {"listCategories", "listSubCategories"} /\ resp.status = 200) =>
        \A i, j \in DOMAIN resp.out :
            i < j => NameNotAfter(resp.out[i].doc.name, resp.out[j].doc.name)

NameLists == {"listCategories", "listSubCategories", "listProducts", "searchProducts"}

\* The documents of the collection a list reads, by id.
C23_Collection(op) ==
    CASE op = "listCategories" -> categories
      [] op = "listSubCategories" -> subCategories
      [] OTHER -> products

\* Name contains text s as a substring, ignoring case.
C23_Contains(s, name) ==
    \E i \in 1 .. Len(name) + 1 :
        /\ i + Len(s) - 1 <= Len(name)
        /\ LowerSeq(SubSeq(name, i, i + Len(s) - 1)) = LowerSeq(s)

\* The records a search for the text of query q is to return.
C23_Expected(op, q) ==
    {id \in DOMAIN C23_Collection(op) :
        Searched(q) => C23_Contains(q.search, C23_Collection(op)[id].name)}

\* A text without a character that is special in a regular expression.
C23_Plain(s) == \A i \in DOMAIN s : s[i] \notin {Quantifier, Wildcard}

\* A list with no filter but the search text was sent with a valid token,
\* and the store did not fail.
C23_Listed ==
    /\ resp.op \in NameLists
    /\ resp.tok = "valid"
    /\ resp.query.given \subseteq {"search"}
    /\ ~(resp.status = 500 /\ RegExpCompiles(resp.query.search))

\* C23 (SpecSearch): for every search text, special characters included, a
\* Category, SubCategory or Product list answers with exactly the records
\* whose name contains the text as a substring ignoring case; an empty or
\* absent text applies no name filter.
C23_SearchIsSubstringIgnoringCase ==
    C23_Listed =>
        /\ resp.status = 200
        /\ IdsShown(resp) = C23_Expected(resp.op, resp.query)

\* The part of C23 that holds: a text of letters only, an empty text and an
\* absent text.
C23_PlainSearchIsSubstringIgnoringCase ==
    (C23_Listed /\ C23_Plain(resp.query.search)) =>
        /\ resp.status = 200
        /\ IdsShown(resp) = C23_Expected(resp.op, resp.query)

\* A verification is answered at this step.
C24_Verified == resp = Idle /\ resp' # Idle /\ resp'.op = "verify"

\* C24 (SpecGate): a token is stamped with the second it is issued at; a
\* request that carries a token issued at second t is admitted before
\* t + 30 days and answered Unauthorized after t + 30 days, and a request
\* whose token has another signature is answered Unauthorized at any time.
C24_TokenLivesThirtyDays ==
    /\ [][\A t \in issued' \ issued : t.iat = seconds]_vars
    /\ [][C24_Verified =>
            LET t == resp'.bearer
            IN /\ (t \in issued /\ seconds < t.iat + ExpiresIn) => resp'.status = 200
               /\ (t \in issued /\ seconds > t.iat + ExpiresIn) => resp'.status = 401
               /\ ~t.signed => resp'.status = 401]_vars

\* A token that was issued was refused more than thirty days later.
C24_Witness ==
    /\ resp.op = "verify"
    /\ resp.status = 401
    /\ resp.bearer \in issued
    /\ seconds = resp.bearer.iat + ExpiresIn + 1

\* Every Product refers to a SubCategory that exists and every SubCategory
\* to a Category that exists.
OrphanFree ==
    /\ \A i \in DOMAIN products : products[i].subCategoryId \in DOMAIN subCategories
    /\ \A s \in DOMAIN subCategories : subCategories[s].categoryId \in DOMAIN categories

\* A step removes a SubCategory only when no Product refers to it, and a
\* Category only when no SubCategory refers to it.
C25_ChildrenGoFirst ==
    /\ \A s \in DOMAIN subCategories \ DOMAIN subCategories' :
          \A i \in DOMAIN products : products[i].subCategoryId # s
    /\ \A c \in DOMAIN categories \ DOMAIN categories' :
          \A s \in DOMAIN subCategories : subCategories[s].categoryId # c

\* C25 (SpecCascade): with requests served one at a time, every state of a
\* cascade delete, the states it stops in after a failed store call
\* included, is orphan-free: deleteCategory removes Products, then
\* SubCategories, then the Category, and deleteSubCategory removes Products
\* before the SubCategory.
C25_CascadeIsOrphanFreeAtEveryStep ==
    /\ []OrphanFree
    /\ [][C25_ChildrenGoFirst]_vars

\* A Category delete stopped after it had removed the Products and before
\* it removed the SubCategories.
C25_Witness ==
    /\ resp.op = "deleteCategory"
    /\ resp.status = 500
    /\ resp.at = "deleteSubs"
    /\ resp.kids # {}
    /\ resp.kids \subseteq DOMAIN subCategories
    /\ allocated.product > 0
    /\ products = <<>>

Deletes == {"deleteCategory", "deleteSubCategory"}

\* The parent a delete request names still exists.
C26_ParentExists(r) ==
    \/ r.op = "deleteCategory" /\ r.id \in DOMAIN categories
    \/ r.op = "deleteSubCategory" /\ r.id \in DOMAIN subCategories

\* The parent a delete request names exists after the step.
C26_ParentStays(r) ==
    \/ r.op = "deleteCategory" /\ r.id \in DOMAIN categories'
    \/ r.op = "deleteSubCategory" /\ r.id \in DOMAIN subCategories'

\* The children that remain of the parent a delete request names.
C26_Children(r) ==
    IF r.op = "deleteCategory"
    THEN {sc \in DOMAIN subCategories : subCategories[sc].categoryId = r.id}
    ELSE {i \in DOMAIN products : products[i].subCategoryId = r.id}

\* Nothing is left of the parent a delete request names.
C26_AllGone(r) ==
    /\ ~C26_ParentExists(r)
    /\ C26_Children(r) = {}
    /\ r.op = "deleteCategory" =>
          \A i \in DOMAIN products :
              products[i].subCategoryId \in DOMAIN subCategories

\* C26 (SpecCascade): a delete that a failed store call stopped leaves the
\* parent in the store, so the same delete issued again is not answered
\* NotFound while the parent or a child of it remains, and once it answers
\* 200 the remaining children and the parent are gone.
C26_InterruptedDeleteCanBeRetried ==
    /\ []((resp.op \in Deletes /\ resp.status = 500) =>
             (C26_Children(resp) # {} => C26_ParentExists(resp)))
    /\ [][(/\ resp = Idle
           /\ resp' # Idle
           /\ resp'.op \in Deletes
           /\ resp'.status = 500
           /\ C26_ParentExists(resp')) => C26_ParentStays(resp')]_vars
    /\ [][(/\ resp = Idle
           /\ resp' # Idle
           /\ resp'.op \in Deletes
           /\ C26_ParentExists(resp')) => resp'.status # 404]_vars
    /\ []((resp.op \in Deletes /\ resp.status = 200) => C26_AllGone(resp))

\* A Category delete is under way again, past its NotFound check, after an
\* earlier one removed the SubCategories of the Category and stopped.
C26_Witness ==
    /\ req[1].op = "deleteCategory"
    /\ req[1].id = 2
    /\ req[1].pc = "listSubs"
    /\ 2 \in DOMAIN categories
    /\ \A s \in DOMAIN subCategories : subCategories[s].categoryId # 2

\* C27 (SpecPasscode): onDelete is called only by a submit of PasscodeModal
\* whose passcode equals the correct passcode, once per submit; a submit of
\* an empty or incorrect passcode calls nothing and leaves PasscodeModal
\* open with an error.
C27_PasscodeGatesTheDelete ==
    /\ [][modal'.calls # modal.calls =>
            /\ modal'.event = "submit"
            /\ modal.isOpen /\ modal.showPasscodeModal
            /\ modal.subCategory # 0
            /\ modal.passcode = CORRECT_PASSCODE
            /\ modal'.calls = modal.calls + 1]_vars
    /\ [][(PasscodeSubmit /\ modal.passcode # CORRECT_PASSCODE) =>
            /\ modal'.calls = modal.calls
            /\ ~modal'.awaiting
            /\ modal'.isOpen /\ modal'.showPasscodeModal
            /\ modal'.error # ""]_vars

\* The passcode after a blank was submitted: no call, and the modal shows
\* that the passcode is incorrect.
C27_Witness ==
    /\ modal.event = "submit"
    /\ modal.error = "Incorrect passcode"
    /\ modal.showPasscodeModal
    /\ modal.calls = 0

\* The search has settled: no timer is pending and no search is awaited.
C28_Settled == dashboard.timer = <<>> /\ dashboard.inflight = {}

\* C28 (SpecDebounce): once the timers and searches have settled, and no
\* search failed since the last change, searchResults are an answer for the
\* latest searchText, and empty when that text is blank.
C28_LatestTextIsShown ==
    (C28_Settled /\ ~dashboard.logged) =>
        IF Trim(dashboard.searchText) = <<>>
        THEN dashboard.searchResults = <<>>
        ELSE dashboard.searchResults \in SearchResultsFor(dashboard.searchText)

\* What is displayed is always empty or an answer for a text that was
\* typed: a display that is not for the latest text is a late response.
C28_ShownIsSomeTypedText ==
    \/ dashboard.searchResults = <<>>
    \/ \E text \in TypedSearches : dashboard.searchResults \in SearchResultsFor(text)

\* The list has settled: no timer is pending and no fetch is awaited.
C29_Settled == view.timer = <<>> /\ view.inflight = {}

\* The Products of the view's SubCategory that filters f let through.
C29_Passing(f) ==
    {id \in DOMAIN products :
        /\ products[id].subCategoryId = view.subCategoryId
        /\ f.searchText # <<>> => SearchMatches(f.searchText, products[id].name)
        /\ f.qtyMin # <<>> => products[id].qty >= Number(f.qtyMin)
        /\ f.qtyMax # <<>> => products[id].qty <= Number(f.qtyMax)}

\* Once the timer and the fetches have settled, and no fetch failed since
\* the last change of the filters, every Product displayed passes the
\* current filters, and the pagination displayed is that of the current
\* filters.
C29_SettledListIsOfCurrentFilters ==
    (C29_Settled /\ ~view.failed) =>
        /\ \A i \in DOMAIN view.products :
              view.products[i] \in C29_Passing(view.filter)
        /\ view.pagination.total = Cardinality(C29_Passing(view.filter))
        /\ view.pagination.pages =
              Ceil(Cardinality(C29_Passing(view.filter)), ViewLimit)

\* C29 (SpecFilters): the response of a Load More that was sent under other
\* filters than the current ones is not appended to a list that was fetched
\* under the current filters, and does not replace its pagination.
C29_LateLoadMoreIsNotAppended ==
    [][\A s \in view.inflight :
          (/\ s.appending
           /\ s.filter # view.filter
           /\ view.shown = view.filter
           /\ view'.inflight = view.inflight \ {s}) =>
              /\ view'.products = view.products
              /\ view'.pagination = view.pagination]_vars

\* While the filters never change, every Product displayed passes them.
C29_UnfilteredListIsOfTheSubCategory ==
    \A i \in DOMAIN view.products : view.products[i] \in C29_Passing(NoFilter)

\* C30 (SpecLoadMore): once the fetches have settled the list holds pages
\* 1 .. pagination.page, and no Product twice.
C30_EachPageOnce ==
    (view.timer = <<>> /\ view.inflight = {}) =>
        /\ Len(view.products) =
              (IF view.pagination.page * ViewLimit < view.pagination.total
               THEN view.pagination.page * ViewLimit ELSE view.pagination.total)
        /\ \A i, j \in DOMAIN view.products :
              i # j => view.products[i] # view.products[j]

\* The list always holds as many Products as the pages 1 .. pagination.page
\* have, so that no page is appended twice and none is left out.
C30_PagesAppendedOnce ==
    (view.timer = <<>> /\ view.inflight = {}) =>
        Len(view.products) =
            (IF view.pagination.page * ViewLimit < view.pagination.total
             THEN view.pagination.page * ViewLimit ELSE view.pagination.total)

\* Load More fetches the page after pagination.page, only while
\* pagination.page < pagination.pages and while no other Load More is
\* awaited.
C30_LoadMoreOnlyBelowLastPage ==
    [][view'.sent # view.sent /\ view.timer = view'.timer =>
          /\ view.pagination.page < view.pagination.pages
          /\ \A s \in view.inflight : ~s.appending
          /\ \E s \in view'.inflight \ view.inflight :
                s.appending /\ s.page = view.pagination.page + 1]_vars

=============================================================================
